---- MODULE Spec2Model ----
(***************************************************************************)
(* A model of the ra argument parser (github.com/amterp/ra): the flag and  *)
(* command data model, registration, and the single-pass parsing state     *)
(* machine of Cmd.parseWithPreserveState with its helpers.                 *)
(*                                                                         *)
(* Go strings are modelled as sequences of one-character strings, so that  *)
(* prefix tests, the split at "=", number parsing and separator splitting  *)
(* are computed from the characters as the code computes them.  A Go map   *)
(* is a TLA+ function whose DOMAIN is the set of keys.  A pointer to a     *)
(* flag value (the write-target returned by Register) is a key of vals.    *)
(***************************************************************************)
EXTENDS Integers, Sequences, FiniteSets, TLC

VARIABLES
    prog,             \* which program (command tree and parse options) is running
    cmds,             \* command name -> Cmd record (tables and post-parse state)
    vals,             \* write-target -> current value (*f.Value)
    args,             \* the argument list handed to the top-level Parse
    cfg,              \* parseCfg: ignoreUnknown, variadicUnknownFlags, dump
    pc,               \* "ready" | "scan" | "done"
    cur,              \* name of the Cmd whose parseWithPreserveState is running
    rest,             \* that call's args parameter (args[i+1:] after a dispatch)
    base,             \* number of tokens of args in front of rest
    i,                \* loop index into rest (1-based)
    seenDashDash,     \* local seenDashDash of the running call
    numberShortsMode, \* local numberShortsMode of the running call
    result,           \* the error parse returns: NoErr, or an error kind
    reported,         \* the flag names that the returned error message names
    trace,            \* history: one event per loop iteration of this Parse call
    earlier,          \* history: the Parse calls that returned before this one
    calls,            \* history: the Register calls made on the root Command
    caller,           \* the entry point called on the root, its options, its position
    effects,          \* history: hook calls, writes and exits of the entry point
    completed         \* history: the latest computeCompletions call and what it found

vars == <<prog, cmds, vals, args, cfg, pc, cur, rest, base, i, seenDashDash,
          numberShortsMode, result, reported, trace, earlier, calls,
          caller, effects, completed>>

----------------------------------------------------------------------------
(* Strings *)

Empty == <<>>
NoErr == "nil"

HasPrefix(s, p) == Len(s) >= Len(p) /\ SubSeq(s, 1, Len(p)) = p

\* strings.Index(s, sep): 1-based position of the first occurrence, 0 if none.
IndexOf(s, sep) ==
    LET hits == {k \in 1..(Len(s) - Len(sep) + 1) : SubSeq(s, k, k + Len(sep) - 1) = sep}
    IN  IF hits = {} THEN 0 ELSE CHOOSE k \in hits : \A h \in hits : k <= h

isDigit(ch) == ch \in {"0", "1", "2", "3", "4", "5", "6", "7", "8", "9"}

DigitVal(ch) ==
    CASE ch = "0" -> 0 [] ch = "1" -> 1 [] ch = "2" -> 2 [] ch = "3" -> 3
      [] ch = "4" -> 4 [] ch = "5" -> 5 [] ch = "6" -> 6 [] ch = "7" -> 7
      [] ch = "8" -> 8 [] ch = "9" -> 9

AllDigits(s) == \A k \in 1..Len(s) : isDigit(s[k])

RECURSIVE DigitsVal(_)
DigitsVal(s) ==
    IF s = <<>> THEN 0
    ELSE 10 * DigitsVal(SubSeq(s, 1, Len(s) - 1)) + DigitVal(s[Len(s)])

RECURSIVE Pow10(_)
Pow10(n) == IF n = 0 THEN 1 ELSE 10 * Pow10(n - 1)

\* strconv.ParseInt(value, 10, 64): optional sign, then one or more digits.
ParseInt(s) ==
    LET signed == Len(s) > 0 /\ s[1] \in {"-", "+"}
        body   == IF signed THEN Tail(s) ELSE s
    IN  IF Len(body) > 0 /\ AllDigits(body)
        THEN [ok |-> TRUE,
              val |-> IF s[1] = "-" THEN 0 - DigitsVal(body) ELSE DigitsVal(body)]
        ELSE [ok |-> FALSE, val |-> 0]

\* The fraction n/d with trailing decimal zeros removed, so that equal
\* numbers are equal records.
RECURSIVE Lowest(_)
Lowest(q) ==
    IF q.d > 1 /\ q.n % 10 = 0 THEN Lowest([n |-> q.n \div 10, d |-> q.d \div 10]) ELSE q

\* strconv.ParseFloat(value, 64) on plain decimal notation: optional sign,
\* digits, optional "." and digits, at least one digit.  The value is kept
\* exactly, as the fraction n/d with d a power of ten.
ParseFloat(s) ==
    LET signed == Len(s) > 0 /\ s[1] \in {"-", "+"}
        Signed(mag) == IF signed /\ s[1] = "-" THEN 0 - mag ELSE mag
        Parts(ip, fp) ==
            IF Len(ip) + Len(fp) > 0 /\ AllDigits(ip) /\ AllDigits(fp)
            THEN [ok |-> TRUE,
                  val |-> Lowest([n |-> Signed(DigitsVal(ip) * Pow10(Len(fp)) + DigitsVal(fp)),
                                  d |-> Pow10(Len(fp))])]
            ELSE [ok |-> FALSE, val |-> [n |-> 0, d |-> 1]]
        Cut(body, dot) ==
            Parts(IF dot = 0 THEN body ELSE SubSeq(body, 1, dot - 1),
                  IF dot = 0 THEN <<>> ELSE SubSeq(body, dot + 1, Len(body)))
        Unsigned(body) == Cut(body, IndexOf(body, <<".">>))
    IN  Unsigned(IF signed THEN Tail(s) ELSE s)

FloatLt(a, b) == a.n * b.d < b.n * a.d
FloatLe(a, b) == a.n * b.d <= b.n * a.d

TrueStrings ==
    { <<"1">>, <<"t">>, <<"T">>, <<"t", "r", "u", "e">>,
      <<"T", "R", "U", "E">>, <<"T", "r", "u", "e">> }
FalseStrings ==
    { <<"0">>, <<"f">>, <<"F">>, <<"f", "a", "l", "s", "e">>,
      <<"F", "A", "L", "S", "E">>, <<"F", "a", "l", "s", "e">> }

\* strconv.ParseBool
ParseBool(s) ==
    IF s \in TrueStrings THEN [ok |-> TRUE, val |-> TRUE]
    ELSE IF s \in FalseStrings THEN [ok |-> TRUE, val |-> FALSE]
    ELSE [ok |-> FALSE, val |-> FALSE]

\* strings.Split(s, sep); an empty separator splits after each character.
RECURSIVE Split(_, _)
Split(s, sep) ==
    LET k == IndexOf(s, sep)
    IN  IF sep = <<>> THEN [j \in 1..Len(s) |-> <<s[j]>>]
        ELSE IF k = 0 THEN <<s>>
        ELSE <<SubSeq(s, 1, k - 1)>> \o Split(SubSeq(s, k + Len(sep), Len(s)), sep)

----------------------------------------------------------------------------
(* Flag model *)

ScalarKinds == {"Bool", "String", "Int", "Int64", "Float64"}
SliceKinds  == {"StringSlice", "IntSlice", "Int64Slice", "Float64Slice", "BoolSlice"}

isSliceKind(kind) == kind \in SliceKinds

FloatZero == [n |-> 0, d |-> 1]

\* The zero value new(T) of a write-target.
ZeroValue(kind) ==
    CASE kind = "Bool"    -> FALSE
      [] kind = "String"  -> <<>>
      [] kind = "Int"     -> 0
      [] kind = "Int64"   -> 0
      [] kind = "Float64" -> FloatZero
      [] OTHER            -> <<>>

\* The directives a completion returns with its candidates.
CompletionDirectiveDefault == 0
CompletionDirectiveNoFileComp == 4

\* A CompletionFunc is modelled by what it returns: candidates and directive.
NoCompletionFunc == [candidates |-> {}, directive |-> CompletionDirectiveDefault]

\* NewBool(name), NewString(name), NewInt(name), ...: a flag descriptor with
\* every optional setting absent.
NewFlag(kind, name) ==
    [ kind |-> kind, Name |-> name, Short |-> <<>>, Optional |-> FALSE,
      Hidden |-> FALSE, PositionalOnly |-> FALSE, FlagOnly |-> FALSE,
      Requires |-> <<>>, Excludes |-> <<>>, BypassValidation |-> FALSE,
      hasDefault |-> FALSE, Default |-> ZeroValue(kind),
      Variadic |-> FALSE, hasSeparator |-> FALSE, Separator |-> <<>>,
      hasMin |-> FALSE, min |-> ZeroValue(kind), minInclusive |-> TRUE,
      hasMax |-> FALSE, max |-> ZeroValue(kind), maxInclusive |-> TRUE,
      hasEnum |-> FALSE, EnumConstraint |-> <<>>, Value |-> <<>>,
      hasCompletionFunc |-> FALSE, CompletionFunc |-> NoCompletionFunc ]

SetShort(f, s)      == [f EXCEPT !.Short = s]
SetDefault(f, v)    == [f EXCEPT !.hasDefault = TRUE, !.Default = v]
SetOptional(f, b)   == [f EXCEPT !.Optional = b]
SetFlagOnly(f, b)   == [f EXCEPT !.FlagOnly = b]
SetHidden(f, b)     == [f EXCEPT !.Hidden = b]
SetCompletionFunc(f, fn) == [f EXCEPT !.hasCompletionFunc = TRUE, !.CompletionFunc = fn]
SetPositionalOnly(f, b) == [f EXCEPT !.PositionalOnly = b]
SetVariadic(f, b)   == [f EXCEPT !.Variadic = b]
SetSeparator(f, s)  == [f EXCEPT !.hasSeparator = TRUE, !.Separator = s]
SetRequires(f, ns)  == [f EXCEPT !.Requires = ns]
SetExcludes(f, ns)  == [f EXCEPT !.Excludes = ns]
SetMin(f, m, incl)  == [f EXCEPT !.hasMin = TRUE, !.min = m, !.minInclusive = incl]
SetMax(f, m, incl)  == [f EXCEPT !.hasMax = TRUE, !.max = m, !.maxInclusive = incl]
SetEnumConstraint(f, vs) ==
    IF Len(vs) = 0 THEN [f EXCEPT !.hasEnum = FALSE, !.EnumConstraint = <<>>]
    ELSE [f EXCEPT !.hasEnum = TRUE, !.EnumConstraint = vs]

SeqToSet(s) == {s[k] : k \in 1..Len(s)}

\* s with its first occurrence of x removed (append(s[:i], s[i+1:]...)).
RemoveFirst(s, x) ==
    LET hits == {k \in 1..Len(s) : s[k] = x}
    IN  IF hits = {} THEN s
        ELSE LET k == CHOOSE h \in hits : \A g \in hits : h <= g
             IN  SubSeq(s, 1, k - 1) \o SubSeq(s, k + 1, Len(s))

\* m with key k set to v (m[k] = v on a Go map).
MapPut(m, k, v) == [x \in DOMAIN m \cup {k} |-> IF x = k THEN v ELSE m[x]]
\* delete(m, k)
MapDel(m, k) == [x \in DOMAIN m \ {k} |-> m[x]]
EmptyMap == [x \in {} |-> TRUE]

----------------------------------------------------------------------------
(* Command tree *)

NewCmd(name) ==
    [ name |-> name, flags |-> EmptyMap, positional |-> <<>>,
      nonPositional |-> <<>>, globalFlags |-> <<>>,
      overriddenGlobalFlags |-> EmptyMap, shadowedShortFlags |-> {},
      shadowedNameFlags |-> {}, subCmds |-> {}, shortToName |-> EmptyMap,
      helpEnabled |-> TRUE, autoHelpOnNoArgs |-> FALSE,
      hasUsed |-> FALSE, used |-> FALSE,
      configured |-> {}, unknownArgs |-> <<>>,
      lastVariadicFlag |-> <<>>, sawFlag |-> FALSE ]

SetHelpEnabled(c, b) == [c EXCEPT !.helpEnabled = b]
SetAutoHelpOnNoArgs(c, b) == [c EXCEPT !.autoHelpOnNoArgs = b]

isGlobalName(c, name) == \E k \in 1..Len(c.globalFlags) : c.globalFlags[k] = name

isVariadicFlag(f) == isSliceKind(f.kind) /\ f.Variadic

validatePositionalOnlyAfterVariadic(c, flagName) ==
    IF \E k \in 1..Len(c.positional) :
           c.positional[k] \in DOMAIN c.flags /\ isVariadicFlag(c.flags[c.positional[k]])
    THEN "positional-only after variadic" ELSE NoErr

\* checkForGlobalFlagOverride: a non-global flag may take the name or the short
\* of an existing global flag; the side tables record what the global lost.
checkForGlobalFlagOverride(c, flagName, flagShort, isGlobal) ==
    IF flagName \in DOMAIN c.flags THEN
        IF ~isGlobal /\ isGlobalName(c, flagName) THEN
            LET existingFlag == c.flags[flagName]
                hasShortConflict == existingFlag.Short # <<>> /\ flagShort = existingFlag.Short
                lists == [c EXCEPT !.positional = RemoveFirst(@, flagName),
                                   !.nonPositional = RemoveFirst(@, flagName)]
            IN  IF hasShortConflict THEN
                    [c |-> [lists EXCEPT
                              !.overriddenGlobalFlags = MapPut(@, flagName, existingFlag),
                              !.shortToName = MapDel(@, existingFlag.Short)],
                     err |-> NoErr]
                ELSE
                    LET c1 == [lists EXCEPT
                                 !.overriddenGlobalFlags = MapPut(@, flagName, existingFlag),
                                 !.shadowedNameFlags = @ \cup {flagName}]
                    IN  [c |-> IF existingFlag.Short # <<>>
                               THEN [c1 EXCEPT
                                       !.shortToName = MapPut(@, existingFlag.Short, existingFlag.Short),
                                       !.flags = MapPut(@, existingFlag.Short, existingFlag)]
                               ELSE c1,
                         err |-> NoErr]
        ELSE [c |-> c, err |-> "flag already defined"]
    ELSE IF flagShort # <<>> /\ ~isGlobal /\ flagShort \in DOMAIN c.shortToName THEN
        LET existingFlagName == c.shortToName[flagShort]
        IN  IF isGlobalName(c, existingFlagName) THEN
                LET existingFlag == c.flags[existingFlagName]
                IN  [c |-> [c EXCEPT
                              !.overriddenGlobalFlags = MapPut(@, existingFlagName, existingFlag),
                              !.shadowedShortFlags = @ \cup {existingFlagName},
                              !.shortToName = MapDel(@, flagShort),
                              !.flags = MapPut(@, existingFlagName,
                                               [existingFlag EXCEPT !.Short = <<>>])],
                     err |-> NoErr]
            ELSE [c |-> c, err |-> "short flag already defined"]
    ELSE [c |-> c, err |-> NoErr]

\* validateDefaultValue: a Default must satisfy the flag's own constraints.
validateDefaultValue(f) ==
    CASE f.kind \in {"Int", "Int64"} ->
            ~( (f.hasMin /\ ((f.minInclusive /\ f.Default < f.min)
                             \/ (~f.minInclusive /\ f.Default <= f.min)))
               \/ (f.hasMax /\ ((f.maxInclusive /\ f.Default > f.max)
                                \/ (~f.maxInclusive /\ f.Default >= f.max))) )
      [] f.kind = "Float64" ->
            ~( (f.hasMin /\ ((f.minInclusive /\ FloatLt(f.Default, f.min))
                             \/ (~f.minInclusive /\ FloatLe(f.Default, f.min))))
               \/ (f.hasMax /\ ((f.maxInclusive /\ FloatLt(f.max, f.Default))
                                \/ (~f.maxInclusive /\ FloatLe(f.max, f.Default)))) )
      [] f.kind = "String" ->
            f.hasEnum => f.Default \in SeqToSet(f.EnumConstraint)
      [] OTHER -> TRUE

\* RegisterWithPtr(cmd, ptr, opts...): returns the command as the call leaves
\* it and the error.  The statements run in the order of the code, so a late
\* error leaves the earlier writes in place.
RegisterWithPtr(c, f, ptr, isGlobal, bypassValidation) ==
    IF f.Name = <<>> THEN [c |-> c, err |-> "flag name cannot be empty"]
    ELSE IF f.PositionalOnly /\ f.FlagOnly THEN [c |-> c, err |-> "both PositionalOnly and FlagOnly"]
    ELSE IF f.hasDefault /\ ~validateDefaultValue(f) THEN [c |-> c, err |-> "invalid default value"]
    ELSE
        LET flag == [f EXCEPT
                       !.Value = ptr,
                       !.BypassValidation = bypassValidation,
                       !.FlagOnly = IF isGlobal THEN TRUE ELSE @,
                       !.Optional = IF isGlobal /\ f.kind = "String" THEN TRUE ELSE @]
            Stored(c3) ==
                IF ~flag.FlagOnly THEN
                    IF flag.PositionalOnly
                       /\ validatePositionalOnlyAfterVariadic(c3, f.Name) # NoErr
                    THEN [c |-> c3, err |-> "positional-only after variadic"]
                    ELSE [c |-> [c3 EXCEPT !.positional = Append(@, f.Name)],
                          err |-> NoErr]
                ELSE [c |-> [c3 EXCEPT !.nonPositional = Append(@, f.Name)],
                      err |-> NoErr]
            Listed(c1) ==
                IF f.Short # <<>> /\ f.Short \in DOMAIN c1.shortToName
                THEN [c |-> c1, err |-> "short flag already defined"]
                ELSE Stored([c1 EXCEPT
                               !.shortToName = IF f.Short # <<>>
                                               THEN MapPut(@, f.Short, f.Name) ELSE @,
                               !.flags = MapPut(@, f.Name, flag)])
            Overridden(ov) ==
                IF ov.err # NoErr THEN [c |-> c, err |-> ov.err]
                ELSE Listed(IF isGlobal
                            THEN [ov.c EXCEPT !.globalFlags = Append(@, f.Name)]
                            ELSE ov.c)
        IN  Overridden(checkForGlobalFlagOverride(c, f.Name, f.Short, isGlobal))

----------------------------------------------------------------------------
(* Binding values.  A parser context P is [c, vals, wr, mk]: the Cmd record  *)
(* of the running call, the write-targets, and two histories of the current *)
(* loop iteration that the parser never reads: the write-targets stored to  *)
(* and the names marked configured.  Operators return the context as the    *)
(* code leaves it, and the error.                                           *)
(* A result of a call that the code keeps in a local variable is bound as   *)
(* the parameter of a local operator, so that the call is written once.     *)

Store(P, f, v) == [P EXCEPT !.vals[f.Value] = v, !.wr = Append(@, f.Value)]
MarkConfigured(P, name) ==
    [P EXCEPT !.c.configured = @ \cup {name}, !.mk = Append(@, name)]

belowMin(f, v) == f.hasMin /\ ((f.minInclusive /\ v < f.min) \/ (~f.minInclusive /\ v <= f.min))
aboveMax(f, v) == f.hasMax /\ ((f.maxInclusive /\ v > f.max) \/ (~f.maxInclusive /\ v >= f.max))

belowMinFloat(f, v) ==
    f.hasMin /\ ((f.minInclusive /\ FloatLt(v, f.min)) \/ (~f.minInclusive /\ FloatLe(v, f.min)))
aboveMaxFloat(f, v) ==
    f.hasMax /\ ((f.maxInclusive /\ FloatLt(f.max, v)) \/ (~f.maxInclusive /\ FloatLe(f.max, v)))

setStringValue(P, f, value) ==
    IF f.hasEnum /\ value \notin SeqToSet(f.EnumConstraint)
    THEN [p |-> P, err |-> "invalid enum value"]
    ELSE [p |-> Store(P, f, value), err |-> NoErr]

setIntValue(P, f, value) ==
    LET Converted(r) ==
            IF ~r.ok THEN [p |-> P, err |-> "invalid integer value"]
            ELSE IF belowMin(f, r.val) THEN [p |-> P, err |-> "below minimum"]
            ELSE IF aboveMax(f, r.val) THEN [p |-> P, err |-> "above maximum"]
            ELSE [p |-> Store(P, f, r.val), err |-> NoErr]
    IN  Converted(ParseInt(value))

setInt64Value(P, f, value) ==
    LET Converted(r) ==
            IF ~r.ok THEN [p |-> P, err |-> "invalid integer value"]
            ELSE IF belowMin(f, r.val) THEN [p |-> P, err |-> "below minimum"]
            ELSE IF aboveMax(f, r.val) THEN [p |-> P, err |-> "above maximum"]
            ELSE [p |-> Store(P, f, r.val), err |-> NoErr]
    IN  Converted(ParseInt(value))

setFloat64Value(P, f, value) ==
    LET Converted(r) ==
            IF ~r.ok THEN [p |-> P, err |-> "invalid float value"]
            ELSE IF belowMinFloat(f, r.val) THEN [p |-> P, err |-> "below minimum"]
            ELSE IF aboveMaxFloat(f, r.val) THEN [p |-> P, err |-> "above maximum"]
            ELSE [p |-> Store(P, f, r.val), err |-> NoErr]
    IN  Converted(ParseFloat(value))

\* parseBoolValue: strconv.ParseBool, then "0" and "1".
parseBoolValue(value) ==
    LET r == ParseBool(value)
    IN  IF r.ok THEN r
        ELSE IF value = <<"0">> THEN [ok |-> TRUE, val |-> FALSE]
        ELSE IF value = <<"1">> THEN [ok |-> TRUE, val |-> TRUE]
        ELSE r

\* The scalar setter of a non-bool scalar kind.
setScalarValue(P, f, value) ==
    CASE f.kind = "String"  -> setStringValue(P, f, value)
      [] f.kind = "Int"     -> setIntValue(P, f, value)
      [] f.kind = "Int64"   -> setInt64Value(P, f, value)
      [] f.kind = "Float64" -> setFloat64Value(P, f, value)

\* The element conversion of the append*SliceValue functions.
parseElement(kind, part) ==
    CASE kind = "StringSlice"  -> [ok |-> TRUE, val |-> part]
      [] kind = "IntSlice"     -> ParseInt(part)
      [] kind = "Int64Slice"   -> ParseInt(part)
      [] kind = "Float64Slice" -> ParseFloat(part)
      [] kind = "BoolSlice"    -> ParseBool(part)

\* The loop over parts: each part is converted and appended; the first
\* conversion error returns, leaving what was appended before it.
RECURSIVE appendParts(_, _, _, _)
appendParts(P, f, parts, k) ==
    IF k > Len(parts) THEN [p |-> P, err |-> NoErr]
    ELSE LET Converted(e) ==
                 IF ~e.ok THEN [p |-> P, err |-> "invalid element value"]
                 ELSE appendParts([P EXCEPT !.vals[f.Value] = Append(@, e.val)],
                                  f, parts, k + 1)
         IN  Converted(parseElement(f.kind, parts[k]))

\* Whether the current value equals the Default, which the code takes to
\* mean that no user value has been appended yet.
shouldReplace(P, f) == f.hasDefault /\ P.vals[f.Value] = f.Default

\* appendStringSliceValue, appendIntSliceValue, appendInt64SliceValue,
\* appendFloat64SliceValue, appendBoolSliceValue.
appendSliceValue(P, f, value) ==
    LET parts == IF f.hasSeparator THEN Split(value, f.Separator) ELSE <<value>>
        P0    == IF shouldReplace(P, f) THEN [P EXCEPT !.vals[f.Value] = <<>>] ELSE P
        Written(r) == IF r.err = NoErr \/ r.p.vals[f.Value] # P.vals[f.Value]
                      THEN [r EXCEPT !.p.wr = Append(@, f.Value)] ELSE r
    IN  Written(appendParts(P0, f, parts, 1))

RECURSIVE parseFlag(_, _, _, _, _)

\* The variadic loop of parseSliceFlag (StringSliceFlag): consume until the
\* next "-" token; with variadicUnknownFlags a "-" token is first tried as a
\* flag by calling parseFlag on it.
RECURSIVE variadicLoopString(_, _, _, _, _, _)
variadicLoopString(P, args_, k, f, pcfg, consumed) ==
    LET Appended(a) ==
            IF a.err # NoErr THEN [p |-> a.p, consumed |-> 0, err |-> a.err]
            ELSE variadicLoopString(a.p, args_, k + 1, f, pcfg, consumed + 1)
        Probed(probe) ==
            IF probe.err # NoErr THEN Appended(appendSliceValue(probe.p, f, args_[k]))
            ELSE [p |-> probe.p, consumed |-> consumed, err |-> NoErr]
    IN  IF k > Len(args_) THEN [p |-> P, consumed |-> consumed, err |-> NoErr]
        ELSE IF HasPrefix(args_[k], <<"-">>) THEN
            IF pcfg.variadicUnknownFlags
            THEN Probed(parseFlag(P, args_, k, FALSE, pcfg))
            ELSE [p |-> P, consumed |-> consumed, err |-> NoErr]
        ELSE Appended(appendSliceValue(P, f, args_[k]))

\* The variadic loop of parseIntSliceFlag, parseInt64SliceFlag,
\* parseFloat64SliceFlag and parseBoolSliceFlag: consume until the next "-"
\* token.
RECURSIVE variadicLoop(_, _, _, _, _)
variadicLoop(P, args_, k, f, consumed) ==
    IF k > Len(args_) \/ HasPrefix(args_[k], <<"-">>)
    THEN [p |-> P, consumed |-> consumed, err |-> NoErr]
    ELSE LET Appended(a) ==
                 IF a.err # NoErr THEN [p |-> a.p, consumed |-> 0, err |-> a.err]
                 ELSE variadicLoop(a.p, args_, k + 1, f, consumed + 1)
         IN  Appended(appendSliceValue(P, f, args_[k]))

\* parseSliceFlag and its siblings for the other element types: the bare
\* form of a list flag.
parseSliceFlag(P, args_, index, f, pcfg) ==
    IF ~f.Variadic THEN
        IF index + 1 > Len(args_) THEN [p |-> P, consumed |-> 1, err |-> NoErr]
        ELSE LET Appended(a) ==
                     [p |-> a.p, consumed |-> IF a.err = NoErr THEN 2 ELSE 0, err |-> a.err]
             IN  Appended(appendSliceValue(P, f, args_[index + 1]))
    ELSE IF f.kind = "StringSlice"
         THEN variadicLoopString(P, args_, index + 1, f, pcfg, 1)
         ELSE variadicLoop(P, args_, index + 1, f, 1)

HelpName == <<"h", "e", "l", "p">>
LongHelp == <<"-", "-", "h", "e", "l", "p">>
ShortHelp == <<"-", "h">>
DashDash == <<"-", "-">>

hasHelpFlags(args_) == \E k \in 1..Len(args_) : args_[k] \in {LongHelp, ShortHelp}


Ret(P, consumed, err) == [p |-> P, consumed |-> consumed, err |-> err]

\* The StringSliceFlag arms record the flag as the open variadic after a
\* successful append; the arms of the other list kinds do not.
openVariadic(P, f, flagName, err) ==
    IF err = NoErr /\ f.kind = "StringSlice" /\ f.Variadic
    THEN [P EXCEPT !.c.lastVariadicFlag = flagName] ELSE P

parseLongFlag(P, args_, index, pcfg) ==
    LET arg      == args_[index]
        body     == SubSeq(arg, 3, Len(arg))
        idx      == IndexOf(body, <<"=">>)
        hasValue == idx # 0
        flagName == IF hasValue THEN SubSeq(body, 1, idx - 1) ELSE body
        value    == IF hasValue THEN SubSeq(body, idx + 1, Len(body)) ELSE <<>>
    IN  IF flagName \notin DOMAIN P.c.flags THEN
            IF P.c.helpEnabled /\ hasHelpFlags(args_)
            THEN Ret(P, 0, "help invoked")
            ELSE Ret(P, 0, "unknown flag")
        ELSE
            LET f  == P.c.flags[flagName]
                P1 == MarkConfigured(P, flagName)
                Converted(b) == IF ~b.ok THEN Ret(P1, 0, "invalid bool value")
                                ELSE Ret(Store(P1, f, b.val), 1, NoErr)
                Bound(r, n)  == Ret(r.p, n, r.err)
                Appended(a)  == Ret(openVariadic(a.p, f, flagName, a.err), 1, a.err)
                Listed(r)    == Ret(openVariadic(r.p, f, flagName, r.err), r.consumed, r.err)
            IN  IF f.kind = "Bool" THEN
                    IF hasValue THEN Converted(parseBoolValue(value))
                    ELSE Ret(Store(P1, f, TRUE), 1, NoErr)
                ELSE IF f.kind \in ScalarKinds THEN
                    IF hasValue THEN Bound(setScalarValue(P1, f, value), 1)
                    ELSE IF index + 1 > Len(args_) THEN Ret(P1, 0, "flag requires a value")
                    ELSE Bound(setScalarValue(P1, f, args_[index + 1]), 2)
                ELSE
                    IF hasValue THEN Appended(appendSliceValue(P1, f, value))
                    ELSE Listed(parseSliceFlag(P1, args_, index, f, pcfg))

\* The "i == len(shorts)-1" arms of the cluster loop: the last flag of the
\* cluster, of a kind other than Bool, takes its value.
clusterValue(P1, args_, index, f, flagName, hasValue, value, pcfg) ==
    LET Bound(r, n) == IF r.err # NoErr THEN Ret(r.p, 0, r.err) ELSE Ret(r.p, n, NoErr)
        Appended(a) == IF a.err # NoErr THEN Ret(a.p, 0, a.err)
                       ELSE Ret(openVariadic(a.p, f, flagName, NoErr), 1, NoErr)
        Listed(r)   == IF r.err # NoErr THEN Ret(r.p, 0, r.err)
                       ELSE Ret(openVariadic(r.p, f, flagName, NoErr), r.consumed, NoErr)
    IN  IF f.kind \in {"String", "Float64"} THEN
            IF hasValue THEN Bound(setScalarValue(P1, f, value), 1)
            ELSE IF index + 1 > Len(args_) THEN Ret(P1, 0, "flag requires a value")
            ELSE Bound(setScalarValue(P1, f, args_[index + 1]), 2)
        ELSE IF f.kind \in {"Int", "Int64"} THEN
            IF hasValue THEN Bound(setScalarValue(P1, f, value), 1)
            ELSE IF index + 1 <= Len(args_) /\ ~HasPrefix(args_[index + 1], <<"-">>)
            THEN Bound(setScalarValue(P1, f, args_[index + 1]), 2)
            ELSE Ret(Store(P1, f, 1), 1, NoErr)
        ELSE
            IF hasValue
            THEN Appended(appendSliceValue(P1, f, value))
            ELSE Listed(parseSliceFlag(P1, args_, index, f, pcfg))

\* The cluster loop without the "must be last" arms: a flag that is not Bool
\* is passed over in front of the last position.
RECURSIVE clusterLoop(_, _, _, _, _, _, _, _, _)
clusterLoopAnyPosition(P, args_, index, shorts, hasValue, value, pcfg, k, consumed) ==
    IF k > Len(shorts) THEN Ret(P, consumed, NoErr)
    ELSE
        LET shortStr == <<shorts[k]>>
        IN  IF shortStr \notin DOMAIN P.c.shortToName THEN Ret(P, 0, "unknown shorthand flag")
            ELSE
                LET flagName == P.c.shortToName[shortStr]
                    P1       == MarkConfigured(P, flagName)
                    f        == P.c.flags[flagName]
                IN  IF flagName \notin DOMAIN P.c.flags \/ k < Len(shorts)
                    THEN clusterLoop(IF flagName \in DOMAIN P.c.flags /\ f.kind = "Bool"
                                     THEN Store(P1, f, TRUE) ELSE P1,
                                     args_, index, shorts, hasValue, value, pcfg, k + 1, consumed)
                    ELSE IF f.kind = "Bool" THEN Ret(Store(P1, f, TRUE), consumed, NoErr)
                    ELSE clusterValue(P1, args_, index, f, flagName, hasValue, value, pcfg)

\* The body of the cluster loop for the flag at position k of shorts.
clusterLoop(P, args_, index, shorts, hasValue, value, pcfg, k, consumed) ==
    IF k > Len(shorts) THEN Ret(P, consumed, NoErr)
    ELSE
        LET shortStr == <<shorts[k]>>
            last     == (k = Len(shorts))
        IN  IF shortStr \notin DOMAIN P.c.shortToName THEN Ret(P, 0, "unknown shorthand flag")
            ELSE
                LET flagName == P.c.shortToName[shortStr]
                    P1       == MarkConfigured(P, flagName)
                IN  IF flagName \notin DOMAIN P.c.flags
                    THEN clusterLoop(P1, args_, index, shorts, hasValue, value, pcfg, k + 1, consumed)
                    ELSE
                    LET f == P.c.flags[flagName]
                    IN  IF f.kind = "Bool" THEN
                            clusterLoop(Store(P1, f, TRUE), args_, index, shorts,
                                        hasValue, value, pcfg, k + 1, consumed)
                        ELSE IF ~last THEN Ret(P1, 0, "non-bool flag must be last in cluster")
                        ELSE clusterValue(P1, args_, index, f, flagName, hasValue, value, pcfg)

\* The number-shorts arm for a scalar Int or Int64 flag named by the whole
\* of shorts, and the same-character arm: the value is the repetition count,
\* "=value", the next token, or 1.
countingInt(P, args_, index, f, shorts, hasValue, value) ==
    IF Len(shorts) > 1 THEN Ret(Store(P, f, Len(shorts)), 1, NoErr)
    ELSE LET Bound(r, n) == Ret(r.p, n, r.err)
         IN  IF hasValue THEN Bound(setScalarValue(P, f, value), 1)
             ELSE IF index + 1 <= Len(args_) /\ ~HasPrefix(args_[index + 1], <<"-">>)
             THEN Bound(setScalarValue(P, f, args_[index + 1]), 2)
             ELSE Ret(Store(P, f, 1), 1, NoErr)

allSame(shorts) == \A k \in 1..Len(shorts) : shorts[k] = shorts[1]

parseShortFlag(P, args_, index, nsm, pcfg) ==
    LET arg      == args_[index]
        body     == SubSeq(arg, 2, Len(arg))
        idx      == IndexOf(body, <<"=">>)
        hasValue == idx # 0
        shorts   == IF hasValue THEN SubSeq(body, 1, idx - 1) ELSE body
        value    == IF hasValue THEN SubSeq(body, idx + 1, Len(body)) ELSE <<>>
        \* lines 647-717: the number-shorts arm, entered when shorts as a
        \* whole names a flag; kinds other than Int, Int64 and String leave
        \* the arm with the flag marked configured.
        numArm   == nsm /\ Len(shorts) > 0 /\ isDigit(shorts[1])
                    /\ shorts \in DOMAIN P.c.shortToName
        numName  == P.c.shortToName[shorts]
        numKnown == numArm /\ numName \in DOMAIN P.c.flags
        numFlag  == P.c.flags[numName]
        Bound(r, n) == Ret(r.p, n, r.err)
        \* lines 719-773: a lone short with "=value"
        LoneShort(P1, f, flagName) ==
            LET Converted(b) == IF ~b.ok THEN Ret(P1, 0, "invalid bool value")
                                ELSE Ret(Store(P1, f, b.val), 1, NoErr)
                Appended(a)  == Ret(openVariadic(a.p, f, flagName, a.err), 1, a.err)
            IN  IF f.kind = "Bool" THEN Converted(parseBoolValue(value))
                ELSE IF f.kind \in ScalarKinds THEN Bound(setScalarValue(P1, f, value), 1)
                ELSE Appended(appendSliceValue(P1, f, value))
        \* lines 781-822: a repeated short of an Int or Int64 flag
        Repeated(P1, f) ==
            IF hasValue THEN Bound(setScalarValue(P1, f, value), 1)
            ELSE Ret(Store(P1, f, Len(shorts)), 1, NoErr)
        Marked(Pn) ==
            IF numKnown /\ numFlag.kind \in {"Int", "Int64"}
            THEN countingInt(Pn, args_, index, numFlag, shorts, hasValue, value)
            ELSE IF numKnown /\ numFlag.kind = "String" THEN
                IF hasValue THEN Bound(setStringValue(Pn, numFlag, value), 1)
                ELSE IF index + 1 > Len(args_) THEN Ret(Pn, 0, "flag requires a value")
                ELSE Bound(setStringValue(Pn, numFlag, args_[index + 1]), 2)
            ELSE IF hasValue /\ Len(shorts) = 1 THEN
                IF shorts \notin DOMAIN Pn.c.shortToName
                THEN Ret(Pn, 0, "unknown shorthand flag")
                ELSE IF Pn.c.shortToName[shorts] \notin DOMAIN Pn.c.flags
                THEN Ret(MarkConfigured(Pn, Pn.c.shortToName[shorts]), 0,
                         "unsupported flag type")
                ELSE LoneShort(MarkConfigured(Pn, Pn.c.shortToName[shorts]),
                               Pn.c.flags[Pn.c.shortToName[shorts]],
                               Pn.c.shortToName[shorts])
            ELSE IF Len(shorts) > 1 /\ allSame(shorts)
                    /\ <<shorts[1]>> \in DOMAIN Pn.c.shortToName
                    /\ Pn.c.shortToName[<<shorts[1]>>] \in DOMAIN Pn.c.flags
                    /\ Pn.c.flags[Pn.c.shortToName[<<shorts[1]>>]].kind \in {"Int", "Int64"}
            THEN Repeated(MarkConfigured(Pn, Pn.c.shortToName[<<shorts[1]>>]),
                          Pn.c.flags[Pn.c.shortToName[<<shorts[1]>>]])
            ELSE clusterLoop(Pn, args_, index, shorts, hasValue, value, pcfg, 1, 1)
    IN  IF ~nsm /\ Len(shorts) > 0 /\ (isDigit(shorts[1]) \/ shorts[1] = ".")
        THEN Ret(P, 0, "not a flag")
        ELSE Marked(IF numArm THEN MarkConfigured(P, numName) ELSE P)

\* parseFlag with its two prefix tests in the other order.
parseFlagShortFirst(P, args_, index, nsm, pcfg) ==
    IF HasPrefix(args_[index], <<"-">>) THEN parseShortFlag(P, args_, index, nsm, pcfg)
    ELSE IF HasPrefix(args_[index], <<"-", "-">>) THEN parseLongFlag(P, args_, index, pcfg)
    ELSE Ret(P, 0, "invalid flag")

parseFlag(P, args_, index, nsm, pcfg) ==
    IF HasPrefix(args_[index], <<"-", "-">>) THEN parseLongFlag(P, args_, index, pcfg)
    ELSE IF HasPrefix(args_[index], <<"-">>) THEN parseShortFlag(P, args_, index, nsm, pcfg)
    ELSE Ret(P, 0, "invalid flag")



----------------------------------------------------------------------------
(* Positional assignment *)

\* handleVariadicSliceFlag without its sawFlag tests: a variadic that was
\* used keeps taking positional tokens.
handleVariadicSliceFlagNeverClosed(P, name, f, value, positionalOnlyMode) ==
    LET Appended(a) == [handled |-> TRUE, p |-> a.p, err |-> a.err]
    IN  Appended(appendSliceValue(
                     [MarkConfigured(P, name) EXCEPT !.c.lastVariadicFlag = name], f, value))

\* handleVariadicSliceFlag: whether the variadic list flag name takes the
\* token, and the context after the append.
handleVariadicSliceFlag(P, name, f, value, positionalOnlyMode) ==
    LET Appended(a) == [handled |-> TRUE, p |-> a.p, err |-> a.err]
    IN  IF P.c.lastVariadicFlag = name THEN
            Appended(appendSliceValue(MarkConfigured(P, name), f, value))
        ELSE IF positionalOnlyMode /\ name \in P.c.configured THEN
            Appended(appendSliceValue(P, f, value))
        ELSE IF P.c.sawFlag /\ name \in P.c.configured THEN
            [handled |-> FALSE, p |-> P, err |-> NoErr]
        ELSE IF ~P.c.sawFlag \/ P.c.lastVariadicFlag = <<>> THEN
            Appended(appendSliceValue(
                         [MarkConfigured(P, name) EXCEPT !.c.lastVariadicFlag = name],
                         f, value))
        ELSE [handled |-> FALSE, p |-> P, err |-> NoErr]

\* assignLoop without the "already assigned" tests on the flags that are
\* not variadic.
RECURSIVE assignLoop(_, _, _, _)
assignLoopIgnoringConfigured(P, value, positionalOnlyMode, k) ==
    IF k > Len(P.c.positional)
    THEN [p |-> P, err |-> "Too many positional arguments", to |-> <<>>]
    ELSE
        LET name == P.c.positional[k]
            next == assignLoop(P, value, positionalOnlyMode, k + 1)
        IN  IF name \notin DOMAIN P.c.flags THEN next
            ELSE
                LET f  == P.c.flags[name]
                    P1 == MarkConfigured(P, name)
                    Handled(h)   == IF h.handled THEN [p |-> h.p, err |-> h.err, to |-> name]
                                    ELSE next
                    Converted(b) == IF ~b.ok
                                    THEN [p |-> P1, err |-> "invalid bool value", to |-> name]
                                    ELSE [p |-> Store(P1, f, b.val), err |-> NoErr, to |-> name]
                    Given(r)     == [p |-> r.p, err |-> r.err, to |-> name]
                IN  IF f.FlagOnly THEN next
                    ELSE IF isSliceKind(f.kind) /\ f.Variadic THEN
                        Handled(handleVariadicSliceFlag(P, name, f, value, positionalOnlyMode))
                    ELSE IF f.kind = "Bool" THEN Converted(ParseBool(value))
                    ELSE IF f.kind \in ScalarKinds THEN Given(setScalarValue(P1, f, value))
                    ELSE Given(appendSliceValue(P1, f, value))

\* The loop of assignPositionalWithMode over c.positional from position k;
\* "to" is the name of the flag that took the token ("" if none did).
assignLoop(P, value, positionalOnlyMode, k) ==
    IF k > Len(P.c.positional)
    THEN [p |-> P, err |-> "Too many positional arguments", to |-> <<>>]
    ELSE
        LET name == P.c.positional[k]
            next == assignLoop(P, value, positionalOnlyMode, k + 1)
        IN  IF name \notin DOMAIN P.c.flags THEN next
            ELSE
                LET f  == P.c.flags[name]
                    P1 == MarkConfigured(P, name)
                    Handled(h)   == IF h.handled THEN [p |-> h.p, err |-> h.err, to |-> name]
                                    ELSE next
                    Converted(b) == IF ~b.ok
                                    THEN [p |-> P1, err |-> "invalid bool value", to |-> name]
                                    ELSE [p |-> Store(P1, f, b.val), err |-> NoErr, to |-> name]
                    Given(r)     == [p |-> r.p, err |-> r.err, to |-> name]
                IN  IF f.FlagOnly THEN next
                    ELSE IF isSliceKind(f.kind) /\ f.Variadic THEN
                        Handled(handleVariadicSliceFlag(P, name, f, value, positionalOnlyMode))
                    ELSE IF name \in P.c.configured THEN next
                    ELSE IF f.kind = "Bool" THEN Converted(ParseBool(value))
                    ELSE IF f.kind \in ScalarKinds THEN Given(setScalarValue(P1, f, value))
                    ELSE Given(appendSliceValue(P1, f, value))

assignPositionalWithMode(P, value, positionalOnlyMode) ==
    assignLoop(P, value, positionalOnlyMode, 1)

assignPositional(P, value) == assignPositionalWithMode(P, value, FALSE)

\* findNextUnassignedVariadicPositional: "" is the empty string.
findNextUnassignedVariadicPositional(c) ==
    LET hits == {k \in 1..Len(c.positional) :
                    /\ c.positional[k] \in DOMAIN c.flags
                    /\ c.positional[k] \notin c.configured
                    /\ isVariadicFlag(c.flags[c.positional[k]])
                    /\ ~c.flags[c.positional[k]].FlagOnly}
    IN  IF hits = {} THEN <<>>
        ELSE c.positional[CHOOSE k \in hits : \A h \in hits : k <= h]

hasNumberShorts(c) ==
    \E k \in DOMAIN c.flags :
        Len(c.flags[k].Short) = 1 /\ isDigit(c.flags[k].Short[1])

\* setDefaults: the write-target of every unconfigured flag gets its
\* Default; an unconfigured list flag without Default gets the empty list.
setDefaults(c, vals_) ==
    [p \in DOMAIN vals_ |->
        LET fs == {k \in DOMAIN c.flags :
                      /\ c.flags[k].Value = p
                      /\ c.flags[k].Name \notin c.configured
                      /\ (isSliceKind(c.flags[k].kind) \/ c.flags[k].hasDefault)}
        IN  IF fs = {} THEN vals_[p]
            ELSE LET f == c.flags[CHOOSE k \in fs : TRUE]
                 IN  IF f.hasDefault THEN f.Default ELSE <<>>]

----------------------------------------------------------------------------
(* Validation *)

validateConstraintReferences(c) ==
    IF \E k \in DOMAIN c.flags :
          \E n \in SeqToSet(c.flags[k].Requires) \cup SeqToSet(c.flags[k].Excludes) :
              n \notin DOMAIN c.flags
    THEN "Undefined flag" ELSE NoErr

validateBeforeParsing(c) == validateConstraintReferences(c)

\* The name validateConstraintReferences reports when flag f is the first of
\* `range c.flags` with an undefined reference: the first undefined name of
\* its Requires, or else of its Excludes.
undefinedOf(c, f) ==
    LET refs == f.Requires \o f.Excludes
        bad  == {j \in 1..Len(refs) : refs[j] \notin DOMAIN c.flags}
    IN  refs[CHOOSE j \in bad : \A j2 \in bad : j <= j2]

\* The names validateConstraintReferences can report: `range c.flags` yields
\* the flags of the map in an order that differs from run to run, and the
\* first flag with an undefined reference ends the loop.
undefinedReferences(c) ==
    { undefinedOf(c, c.flags[k]) :
        k \in {k2 \in DOMAIN c.flags :
                 \E n \in SeqToSet(c.flags[k2].Requires \o c.flags[k2].Excludes) :
                     n \notin DOMAIN c.flags} }

\* getAllFlagsInRegistrationOrder with the two lists the other way round.
getAllFlagsNonPositionalFirst(c) == c.nonPositional \o c.positional

getAllFlagsInRegistrationOrder(c) == c.positional \o c.nonPositional

flagHasValue(c, name) ==
    \/ name \in c.configured
    \/ name \in DOMAIN c.flags /\ c.flags[name].hasDefault

flagConfiguredForRelationalConstraints(c, vals_, name) ==
    /\ name \in DOMAIN c.flags
    /\ IF c.flags[name].kind = "Bool" THEN vals_[c.flags[name].Value] = TRUE
       ELSE flagHasValue(c, name)

isFlagRequired(c, name) ==
    /\ name \in DOMAIN c.flags
    /\ LET f == c.flags[name]
       IN  CASE f.kind = "Bool"      -> FALSE
             [] f.kind = "BoolSlice" -> FALSE
             [] isSliceKind(f.kind) /\ f.kind # "BoolSlice"
                                     -> ~f.Variadic /\ ~f.Optional /\ ~f.hasDefault
             [] OTHER                -> ~f.Optional /\ ~f.hasDefault

\* An error of validateRequired: its kind and the flag names its message
\* names, in the order of the message.
Invalid(kind, names) == [err |-> kind, names |-> names]
Valid == [err |-> NoErr, names |-> <<>>]

\* checkExclusion deciding by the configured set, whatever a Bool holds.
checkExclusionByConfigured(c, vals_, flagName) ==
    LET Own(excluded) ==
            IF excluded # <<>> THEN Invalid("excludes", <<flagName, Head(excluded)>>)
            ELSE Valid
    IN  IF flagName \notin c.configured \/ flagName \notin DOMAIN c.flags THEN Valid
        ELSE Own(SelectSeq(c.flags[flagName].Excludes, LAMBDA e : e \in c.configured))

checkExclusion(c, vals_, flagName) ==
    LET \* the names in Excludes of flagName that are configured
        Own(excluded) ==
            IF excluded # <<>> THEN Invalid("excludes", <<flagName, Head(excluded)>>)
            ELSE
                LET \* the other configured flags that exclude flagName
                    Others(os) ==
                        IF os # <<>> THEN Invalid("excludes", <<Head(os), flagName>>)
                        ELSE Valid
                IN  Others(SelectSeq(getAllFlagsInRegistrationOrder(c),
                               LAMBDA o :
                                   /\ o # flagName
                                   /\ flagConfiguredForRelationalConstraints(c, vals_, o)
                                   /\ o \in DOMAIN c.flags
                                   /\ flagName \in SeqToSet(c.flags[o].Excludes)))
    IN  IF ~flagConfiguredForRelationalConstraints(c, vals_, flagName) THEN Valid
        ELSE Own(IF flagName \in DOMAIN c.flags
                 THEN SelectSeq(c.flags[flagName].Excludes,
                          LAMBDA e : flagConfiguredForRelationalConstraints(c, vals_, e))
                 ELSE <<>>)

isFlagExcludedByConfiguredFlag(c, vals_, flagName) ==
    \E n \in c.configured :
        /\ n # flagName
        /\ n \in DOMAIN c.flags
        /\ (c.flags[n].kind = "Bool" => vals_[c.flags[n].Value] = TRUE)
        /\ flagName \in SeqToSet(c.flags[n].Excludes)

hasRequiredFlags(c) ==
    \E n \in SeqToSet(getAllFlagsInRegistrationOrder(c)) : isFlagRequired(c, n)

\* The first pass of validateRequired over the flags from position k of
\* the registration order: requires, then excludes, of each flag in turn.
\* relationalPass without the Requires check.
relationalPassExcludesOnly(c, vals_, k) ==
    LET hits == SelectSeq(getAllFlagsInRegistrationOrder(c),
                    LAMBDA n : n \in DOMAIN c.flags
                               /\ checkExclusion(c, vals_, n).err # NoErr)
    IN  IF hits = <<>> THEN Valid ELSE checkExclusion(c, vals_, Head(hits))

RECURSIVE relationalPass(_, _, _)
relationalPass(c, vals_, k) ==
    LET order == getAllFlagsInRegistrationOrder(c)
    IN  IF k > Len(order) THEN Valid
        ELSE
            LET name == order[k]
                Excluded(x) == IF x.err # NoErr THEN x
                               ELSE relationalPass(c, vals_, k + 1)
                \* the names in Requires of name that are not configured
                Unmet(reqs) ==
                    IF flagConfiguredForRelationalConstraints(c, vals_, name)
                       /\ reqs # <<>>
                    THEN Invalid("requires", <<name, Head(reqs)>>)
                    ELSE Excluded(checkExclusion(c, vals_, name))
            IN  IF name \notin DOMAIN c.flags THEN relationalPass(c, vals_, k + 1)
                ELSE Unmet(SelectSeq(c.flags[name].Requires,
                               LAMBDA r : ~flagConfiguredForRelationalConstraints(c, vals_, r)))

missingRequired(c, vals_) ==
    SelectSeq(getAllFlagsInRegistrationOrder(c),
              LAMBDA n : /\ isFlagRequired(c, n)
                         /\ n \notin c.configured
                         /\ ~isFlagExcludedByConfiguredFlag(c, vals_, n))

validateRequired(c, vals_) ==
    LET Missing(names) ==
            IF names # <<>> THEN Invalid("Missing required arguments", names) ELSE Valid
        Related(rel) ==
            IF rel.err # NoErr THEN rel
            ELSE IF \E n \in c.configured :
                        n \in DOMAIN c.flags /\ c.flags[n].BypassValidation
            THEN Valid
            ELSE Missing(missingRequired(c, vals_))
    IN  Related(relationalPass(c, vals_, 1))

----------------------------------------------------------------------------
(* Subcommands *)

\* The loop of applyGlobalFlags over c.globalFlags from position k.
RECURSIVE applyGlobalFlagsFrom(_, _, _)
applyGlobalFlagsFrom(c, subCmd, k) ==
    IF k > Len(c.globalFlags) THEN subCmd
    ELSE
        LET globalFlagName == c.globalFlags[k]
            overridden == globalFlagName \in DOMAIN c.overriddenGlobalFlags
            exists == overridden \/ globalFlagName \in DOMAIN c.flags
            flag == IF overridden THEN c.overriddenGlobalFlags[globalFlagName]
                    ELSE c.flags[globalFlagName]
        IN  IF exists /\ globalFlagName \notin DOMAIN subCmd.flags THEN
                LET s1 == [subCmd EXCEPT
                             !.flags = MapPut(@, globalFlagName, flag),
                             !.shortToName = IF flag.Short # <<>>
                                             THEN MapPut(@, flag.Short, flag.Name) ELSE @,
                             !.globalFlags = Append(@, globalFlagName),
                             !.nonPositional = Append(@, globalFlagName)]
                IN  applyGlobalFlagsFrom(c, s1, k + 1)
            ELSE applyGlobalFlagsFrom(c, subCmd, k + 1)

applyGlobalFlags(c, subCmd) == applyGlobalFlagsFrom(c, subCmd, 1)



\* RegisterCmd on the table of commands: the parent records the child, the
\* child gets its used cell and the parent's global flags.
RegisterCmd(cs, parent, subName) ==
    IF subName \in cs[parent].subCmds
    THEN [cs |-> cs, err |-> "command already defined"]
    ELSE LET c   == [cs[parent] EXCEPT !.subCmds = @ \cup {subName}]
             sub == [cs[subName] EXCEPT !.hasUsed = TRUE, !.used = FALSE]
         IN  [cs |-> [cs EXCEPT ![parent] = c, ![subName] = applyGlobalFlags(c, sub)],
              err |-> NoErr]

\* Cmd.Configured(name): configured in command cmdName, or in one of its
\* used subcommands.
RECURSIVE Configured(_, _, _)
Configured(cs, cmdName, name) ==
    \/ name \in cs[cmdName].configured
    \/ \E subName \in cs[cmdName].subCmds :
          /\ cs[subName].hasUsed /\ cs[subName].used
          /\ Configured(cs, subName, name)

----------------------------------------------------------------------------
(* parseWithPreserveState as a state machine.  A machine state S is the    *)
(* record of the variables; Enter is the code in front of the loop, Step   *)
(* one iteration of the loop, Finish the code behind it.                   *)

\* The write-target allocated by Register for the help flag of command name.
helpPtr(name) == <<"*", "h", "e", "l", "p", "@">> \o name

helpFlag == SetOptional(SetShort(NewFlag("Bool", HelpName), <<"h">>), TRUE)

Done(S, err) == [S EXCEPT !.pc = "done", !.result = err]

Enter(S, cmdName, rest_, base_, preserveConfigured) ==
    LET c1  == [S.cmds[cmdName] EXCEPT
                          !.configured = IF preserveConfigured THEN @ ELSE {},
                          !.unknownArgs = <<>>,
                          !.lastVariadicFlag = <<>>,
                          !.sawFlag = FALSE]
        addHelp == c1.helpEnabled /\ HelpName \notin DOMAIN c1.flags
        Defaulted(S2, c2) ==
            IF S.cfg.dump THEN Done(S2, "dump invoked")
            ELSE IF c2.autoHelpOnNoArgs /\ Len(rest_) = 0 /\ hasRequiredFlags(c2)
            THEN Done(S2, "help invoked")
            ELSE [S2 EXCEPT !.numberShortsMode = hasNumberShorts(c2)]
        Validated(S1, c2, v0, err) ==
            IF err # NoErr
            THEN [Done(S1, err) EXCEPT
                     !.reported = << CHOOSE n \in undefinedReferences(c2) : TRUE >>]
            ELSE Defaulted([S1 EXCEPT !.vals = setDefaults(c2, v0)], c2)
        Registered(reg) ==
            Validated([S EXCEPT !.cmds[cmdName] = reg.c, !.cur = cmdName, !.rest = rest_,
                                !.base = base_, !.i = 1, !.seenDashDash = FALSE,
                                !.numberShortsMode = FALSE, !.pc = "scan"],
                      reg.c,
                      IF addHelp /\ reg.err = NoErr
                      THEN MapPut(S.vals, helpPtr(cmdName), FALSE) ELSE S.vals,
                      validateBeforeParsing(reg.c))
    IN  Registered(IF addHelp
                   THEN RegisterWithPtr(c1, helpFlag, helpPtr(cmdName), TRUE, FALSE)
                   ELSE [c |-> c1, err |-> NoErr])

Ctx(S) == [c |-> S.cmds[S.cur], vals |-> S.vals, wr |-> <<>>, mk |-> <<>>]

Event(S, kind, P, consumed, err) ==
    [at |-> S.base + S.i, tok |-> S.rest[S.i], kind |-> kind, cmd |-> S.cur,
     wr |-> P.wr, mk |-> P.mk, consumed |-> consumed, err |-> err,
     pre |-> [c |-> S.cmds[S.cur], vals |-> S.vals, seenDashDash |-> S.seenDashDash]]

Commit(S, P, kind, consumed, err) ==
    [S EXCEPT !.cmds[S.cur] = P.c, !.vals = P.vals,
              !.trace = Append(@, Event(S, kind, P, consumed, err))]

\* An iteration that steps one token short of what it consumed.
AdvanceShort(S, P, kind, consumed) ==
    [Commit(S, P, kind, consumed, NoErr) EXCEPT !.i = @ + consumed - 1]

Advance(S, P, kind, consumed) ==
    [Commit(S, P, kind, consumed, NoErr) EXCEPT !.i = @ + consumed]

Fail(S, P, kind, err) == Done(Commit(S, P, kind, 0, err), err)

\* The error is returned whatever the parse options say.
OrUnknownAbort(S, P, kind, err) == Fail(S, P, kind, err)

\* "if cfg.ignoreUnknown { unknownArgs = append(unknownArgs, arg) } else
\* { return err }", then i++.
OrUnknown(S, P, kind, err) ==
    IF S.cfg.ignoreUnknown
    THEN [Commit(S, [P EXCEPT !.c.unknownArgs = Append(@, S.rest[S.i])], kind, 1, err)
            EXCEPT !.i = @ + 1]
    ELSE Fail(S, P, kind, err)

AssignOutcome(S, a, kind) ==
    IF a.err # NoErr THEN OrUnknown(S, a.p, kind, a.err) ELSE Advance(S, a.p, kind, 1)

\* Lines 241-256: the token names a subcommand.
Dispatch(S, arg) ==
    LET c    == S.cmds[S.cur]
        sub1 == applyGlobalFlags(c, [S.cmds[arg] EXCEPT !.used = TRUE])
        sub2 == [sub1 EXCEPT !.configured =
                    @ \cup {g \in SeqToSet(c.globalFlags) : g \in c.configured}]
        S1   == [S EXCEPT !.cmds[arg] = sub2,
                          !.trace = Append(@, Event(S, "subcommand", Ctx(S), 1, NoErr))]
    IN  Enter(S1, arg, SubSeq(S.rest, S.i + 1, Len(S.rest)), S.base + S.i, TRUE)

\* Lines 259-314: the token starts with "-".
FlagBranch(S, arg) ==
    LET Assigned(a, variadicFlag, err) ==
            IF a.err # NoErr THEN OrUnknown(S, a.p, "unknownVariadic", a.err)
            ELSE [Commit(S, [a.p EXCEPT !.c.lastVariadicFlag = variadicFlag],
                         "unknownVariadic", 1, err) EXCEPT !.i = @ + 1]
        Failed(r, variadicFlag) ==
            IF S.cfg.variadicUnknownFlags /\ variadicFlag # <<>>
            THEN Assigned(assignPositional(r.p, arg), variadicFlag, r.err)
            ELSE IF S.cfg.ignoreUnknown THEN
                [Commit(S, [r.p EXCEPT !.c.unknownArgs = Append(@, arg)], "ignored", 1, r.err)
                    EXCEPT !.i = @ + 1]
            ELSE Fail(S, r.p, "flagError", r.err)
        Tried(r) ==
            IF r.err = NoErr THEN
                Advance(S, [r.p EXCEPT !.c.sawFlag = TRUE, !.c.lastVariadicFlag = <<>>],
                        "flag", r.consumed)
            ELSE IF r.err = "not a flag" THEN
                AssignOutcome(S, assignPositional(r.p, arg), "negative")
            ELSE Failed(r, IF r.p.c.lastVariadicFlag # <<>> THEN r.p.c.lastVariadicFlag
                           ELSE findNextUnassignedVariadicPositional(r.p.c))
    IN  Tried(parseFlag(Ctx(S), S.rest, S.i, S.numberShortsMode, S.cfg))

\* The loop body with the subcommand test moved behind positional
\* assignment.
StepPositionalBeforeSubcommand(S) ==
    LET arg == S.rest[S.i]
        Assigned(a) ==
            IF a.err = NoErr THEN Advance(S, a.p, "positional", 1)
            ELSE IF arg \in S.cmds[S.cur].subCmds THEN Dispatch(S, arg)
            ELSE OrUnknown(S, a.p, "positional", a.err)
    IN  IF arg = DashDash /\ ~S.seenDashDash
        THEN [Advance(S, Ctx(S), "dashdash", 1) EXCEPT !.seenDashDash = TRUE]
        ELSE IF S.seenDashDash
        THEN AssignOutcome(S, assignPositionalWithMode(Ctx(S), arg, TRUE), "positionalOnly")
        ELSE IF HasPrefix(arg, <<"-">>) THEN FlagBranch(S, arg)
        ELSE Assigned(assignPositional(Ctx(S), arg))

\* The loop body without the seenDashDash test on "--": every "--" is a
\* separator.
StepEveryDashDash(S) ==
    LET arg == S.rest[S.i]
    IN  IF arg = DashDash
        THEN [Advance(S, Ctx(S), "dashdash", 1) EXCEPT !.seenDashDash = TRUE]
        ELSE IF S.seenDashDash
        THEN AssignOutcome(S, assignPositionalWithMode(Ctx(S), arg, TRUE), "positionalOnly")
        ELSE IF ~HasPrefix(arg, <<"-">>) /\ arg \in S.cmds[S.cur].subCmds
        THEN Dispatch(S, arg)
        ELSE IF HasPrefix(arg, <<"-">>) THEN FlagBranch(S, arg)
        ELSE AssignOutcome(S, assignPositional(Ctx(S), arg), "positional")

\* One iteration of the loop at lines 217-326.
Step(S) ==
    LET arg == S.rest[S.i]
    IN  IF arg = DashDash /\ ~S.seenDashDash
        THEN [Advance(S, Ctx(S), "dashdash", 1) EXCEPT !.seenDashDash = TRUE]
        ELSE IF S.seenDashDash
        THEN AssignOutcome(S, assignPositionalWithMode(Ctx(S), arg, TRUE), "positionalOnly")
        ELSE IF ~HasPrefix(arg, <<"-">>) /\ arg \in S.cmds[S.cur].subCmds
        THEN Dispatch(S, arg)
        ELSE IF HasPrefix(arg, <<"-">>) THEN FlagBranch(S, arg)
        ELSE AssignOutcome(S, assignPositional(Ctx(S), arg), "positional")

\* Lines 328-355: the help check over this call's args, then validateRequired.
Finish(S) ==
    LET c == S.cmds[S.cur]
        Validated(v) == [Done(S, v.err) EXCEPT !.reported = v.names]
    IN  IF c.helpEnabled /\ hasHelpFlags(S.rest) THEN Done(S, "help invoked")
        ELSE Validated(validateRequired(c, S.vals))

\* The whole call from a machine state to its return.
RECURSIVE Run(_)
Run(S) ==
    IF S.pc = "done" THEN S
    ELSE IF S.i > Len(S.rest) THEN Finish(S)
    ELSE Run(Step(S))



----------------------------------------------------------------------------
(* Programs: command trees as a main function builds them with the         *)
(* registration calls, the options it passes to Parse, and the tokens its  *)
(* command line is drawn from.                                              *)

\* The variable a caller passes to RegisterWithPtr for the flag called name.
ptrOf(name) == <<"&">> \o name

\* The write-target that Register allocates for flag f of command c: a new
\* one, distinct from that of a flag of the same name registered before.
newPtr(c, f) ==
    IF \E k \in DOMAIN c.flags : c.flags[k].Value = ptrOf(f.Name)
    THEN ptrOf(f.Name) \o <<"'">> ELSE ptrOf(f.Name)

\* regs is a sequence of [f, global, bypass]: the Register calls in order.
RECURSIVE RegisterAll(_, _)
RegisterAll(c, regs) ==
    IF regs = <<>> THEN c
    ELSE RegisterAll(RegisterWithPtr(c, Head(regs).f, newPtr(c, Head(regs).f),
                                     Head(regs).global, Head(regs).bypass).c,
                     Tail(regs))

Local(f) == [f |-> f, global |-> FALSE, bypass |-> FALSE]
Global(f) == [f |-> f, global |-> TRUE, bypass |-> FALSE]
Bypass(f) == [f |-> f, global |-> FALSE, bypass |-> TRUE]

\* links is a sequence of <<parent, child>>: the RegisterCmd calls in order.
RECURSIVE RegisterCmds(_, _)
RegisterCmds(cs, links) ==
    IF links = <<>> THEN cs
    ELSE RegisterCmds(RegisterCmd(cs, Head(links)[1], Head(links)[2]).cs, Tail(links))

\* The longest command line tried, and the longest one tried on the program
\* with two variadic lists.
MaxArgs == 3
MaxVariadicArgs == 4

\* The longest command line of a Parse call that follows another one, and
\* the number of Parse calls made on one Command.
MaxAgainArgs == 1
MaxParses == 2

\* A program: defs maps each command name to [c, regs].
Program(root, defs, links, pcfg, tokens) ==
    LET Built(cs) ==
            [ root   |-> root,
              cmds   |-> cs,
              vals   |-> LET at == UNION {{<<n, k>> : k \in DOMAIN cs[n].flags} :
                                             n \in DOMAIN cs}
                             flag(x) == cs[x[1]].flags[x[2]]
                         IN  [p \in {flag(x).Value : x \in at} |->
                                 ZeroValue(flag(CHOOSE x \in at : flag(x).Value = p).kind)],
              cfg    |-> pcfg,
              tokens |-> tokens,
              len    |-> MaxArgs ]
    IN  Built(RegisterCmds([n \in DOMAIN defs |-> RegisterAll(defs[n].c, defs[n].regs)],
                           links))

\* The program run on command lines of up to n tokens.
WithLen(program, n) == [program EXCEPT !.len = n]

NoOpts == [ignoreUnknown |-> FALSE, variadicUnknownFlags |-> FALSE, dump |-> FALSE]
WithIgnoreUnknown(o, b) == [o EXCEPT !.ignoreUnknown = b]
WithVariadicUnknownFlags(o, b) == [o EXCEPT !.variadicUnknownFlags = b]
WithDump(o, b) == [o EXCEPT !.dump = b]

App == <<"a", "p", "p">>
Sub == <<"s", "u", "b">>
Aux == <<"a", "u", "x">>

\* Dual-nature flags: a String, a ranged Int and a variadic list, each
\* usable by name or by position, and a subcommand.
DualProgram ==
    Program(App,
        (App :> [c |-> NewCmd(App),
                 regs |-> << Local(SetShort(NewFlag("String", <<"i", "n">>), <<"i">>)),
                             Local(SetMax(SetMin(NewFlag("Int", <<"n", "u", "m">>), 1, TRUE),
                                          9, TRUE)),
                             Local(SetVariadic(NewFlag("StringSlice", <<"v", "s">>), TRUE)) >>])
        @@ (Sub :> [c |-> NewCmd(Sub), regs |-> <<>>]),
        << <<App, Sub>> >>,
        NoOpts,
        { <<"-", "-", "i", "n", "=", "a">>, <<"-", "-", "i", "n", "=", "-", "x">>,
          <<"-", "-", "i", "n", "=", "s", "u", "b">>, <<"-", "-", "n", "u", "m", "=", "5">>,
          <<"-", "-", "v", "s", "=", "c">>, <<"d">>, <<"-", "-", "n", "u", "m", "=", "0">> })

\* A ranged Int, a required String and a variadic list, parsed with one of
\* the permissive options.
PermissiveProgram(pcfg) ==
    Program(App,
        (App :> [c |-> NewCmd(App),
                 regs |-> << Local(SetShort(NewFlag("Int", <<"n", "u", "m">>), <<"n">>)),
                             Local(NewFlag("String", <<"y">>)),
                             Local(SetVariadic(NewFlag("StringSlice", <<"v", "s">>), TRUE)) >>]),
        <<>>,
        pcfg,
        { <<"-", "-", "n", "u", "m", "=", "x">>, <<"-", "-", "n", "u", "m", "=", "5">>,
          <<"-", "-", "y", "=", "b">>, <<"-", "u">>, <<"a">>, <<"-", "-", "v", "s">>,
          <<"-", "-">> })

\* A parent with a required positional String, a variadic list and a global
\* Bool, and a subcommand with an optional String of its own.
TreeProgram ==
    Program(App,
        (App :> [c |-> NewCmd(App),
                 regs |-> << Local(NewFlag("String", <<"p", "a", "r", "g">>)),
                             Local(SetVariadic(NewFlag("StringSlice", <<"f", "s">>), TRUE)),
                             Global(SetShort(NewFlag("Bool", <<"v", "e", "r", "b">>), <<"v">>)) >>])
        @@ (Sub :> [c |-> NewCmd(Sub),
                    regs |-> << Local(SetOptional(NewFlag("String", <<"s", "a", "r", "g">>),
                                                  TRUE)) >>]),
        << <<App, Sub>> >>,
        NoOpts,
        { Sub, <<"x">>, <<"-", "v">>, DashDash, <<"-", "-", "p", "a", "r", "g">>,
          <<"-", "-", "s", "a", "r", "g", "=", "s">> })

\* Two variadic lists, a Bool and a String, as in
\* Test_ExampleMultipleVariadics.
VariadicProgram ==
    WithLen(Program(App,
        (App :> [c |-> NewCmd(App),
                 regs |-> << Local(SetVariadic(NewFlag("StringSlice", <<"v", "s">>), TRUE)),
                             Local(SetVariadic(NewFlag("StringSlice", <<"w", "s">>), TRUE)),
                             Local(SetShort(NewFlag("Bool", <<"e">>), <<"e">>)),
                             Local(SetOptional(NewFlag("String", <<"o", "u", "t">>), TRUE)) >>]),
        <<>>,
        NoOpts,
        { <<"a">>, <<"-", "e">>, <<"-", "-", "w", "s">>, DashDash, <<"-", "1">> }),
        MaxVariadicArgs)

\* Scalars in positional order behind a FlagOnly flag, as in
\* Test_PositionalAssignmentLeftToRight.
PositionalProgram ==
    Program(App,
        (App :> [c |-> NewCmd(App),
                 regs |-> << Local(SetFlagOnly(NewFlag("String", <<"f", "o">>), TRUE)),
                             Local(NewFlag("String", <<"s", "r", "c">>)),
                             Local(SetOptional(NewFlag("Int", <<"n">>), TRUE)),
                             Local(SetOptional(NewFlag("String", <<"d", "s", "t">>), TRUE)),
                             Global(NewFlag("Bool", <<"g">>)) >>]),
        <<>>,
        NoOpts,
        { <<"a">>, <<"7">>, <<"-", "-", "n", "=", "5">>, <<"-", "-", "f", "o", "=", "z">>,
          <<"-", "-", "d", "s", "t", "=", "q">> })

\* Two Bool shorts and one short of each value-typed kind, as in
\* Test_ShortClusterEndsWithNonBool.
ClusterProgram(tokens) ==
    Program(App,
        (App :> [c |-> NewCmd(App),
                 regs |-> << Local(SetShort(NewFlag("Bool", <<"a">>), <<"a">>)),
                             Local(SetShort(NewFlag("Bool", <<"b">>), <<"b">>)),
                             Local(SetOptional(SetShort(NewFlag("String", <<"s">>), <<"s">>), TRUE)),
                             Local(SetOptional(SetShort(NewFlag("Int", <<"n">>), <<"n">>), TRUE)),
                             Local(SetOptional(SetShort(NewFlag("Float64", <<"f">>), <<"f">>), TRUE)),
                             Local(SetShort(NewFlag("StringSlice", <<"l">>), <<"l">>)) >>]),
        <<>>,
        NoOpts,
        tokens)

NextTokenTokens ==
    { <<"-", "a", "b", "s">>, <<"-", "a", "b", "n">>, <<"-", "a", "b", "l">>,
      <<"-", "a", "b", "f">>, <<"-", "a", "n", "b">>, <<"7">> }

\* Two Int positionals and no digit short, as in
\* Test_NegativeIntsWithoutNumberShortMode.
NegativeProgram ==
    Program(App,
        (App :> [c |-> NewCmd(App),
                 regs |-> << Local(NewFlag("Int", <<"a", "r", "g", "1">>)),
                             Local(NewFlag("Int", <<"a", "r", "g", "2">>)) >>]),
        <<>>,
        NoOpts,
        { <<"-", "1">>, <<"-", "2">>, <<"-", "-", "a", "r", "g", "2">>, <<"-", ".", "5">>,
          <<"3">> })

\* An Int flag with the digit short "2" and a variadic list, as in
\* Test_NumberShortsMode.
DigitProgram(pcfg) ==
    Program(App,
        (App :> [c |-> NewCmd(App),
                 regs |-> << Local(SetVariadic(NewFlag("StringSlice", <<"v", "s">>), TRUE)),
                             Local(SetOptional(SetFlagOnly(
                                 SetShort(NewFlag("Int", <<"t", "w", "o">>), <<"2">>), TRUE), TRUE)) >>]),
        <<>>,
        pcfg,
        { <<"-", "-", "v", "s">>, <<"a">>, <<"-", "2">>, <<"-", "1">>, <<"7">> })

\* An Int flag with the range 2 <= v < 4 and a short that can be repeated.
CountProgram ==
    Program(App,
        (App :> [c |-> NewCmd(App),
                 regs |-> << Local(SetOptional(SetMax(SetMin(
                                 SetShort(NewFlag("Int", <<"v">>), <<"v">>),
                                 2, TRUE), 4, FALSE), TRUE)) >>]),
        <<>>,
        NoOpts,
        { <<"-", "v", "v", "v">>, <<"-", "v", "v", "v", "v">>, <<"-", "v">>,
          <<"-", "-", "v", "=", "4">>, <<"-", "-", "v", "=", "2">>, <<"4">> })

\* A variadic list flag with a Default, and a Bool.
DefaultsProgram ==
    Program(App,
        (App :> [c |-> NewCmd(App),
                 regs |-> << Local(SetDefault(SetVariadic(
                                 NewFlag("StringSlice", <<"l">>), TRUE), <<<<"a">>>>)),
                             Local(SetShort(NewFlag("Bool", <<"e">>), <<"e">>)) >>]),
        <<>>,
        NoOpts,
        { <<"a">>, <<"b">>, <<"-", "-", "l", "=", "a">>, <<"-", "-", "l">>, <<"-", "e">> })

\* A global String with a Default and short "g", a required String, and a
\* subcommand with an Int with a Default.
GlobalDefaultProgram ==
    WithLen(Program(App,
        (App :> [c |-> NewCmd(App),
                 regs |-> << Global(SetDefault(SetShort(NewFlag("String", <<"g">>), <<"g">>),
                                               <<"d">>)),
                             Local(SetFlagOnly(NewFlag("String", <<"r">>), TRUE)) >>])
        @@ (Sub :> [c |-> NewCmd(Sub),
                    regs |-> << Local(SetDefault(NewFlag("Int", <<"k">>), 1)) >>]),
        << <<App, Sub>> >>,
        NoOpts,
        { Sub, <<"-", "-", "g", "=", "x">>, <<"-", "-", "r", "=", "y">>,
          <<"-", "-", "k", "=", "2">> }),
        MaxAgainArgs + 1)

\* A Bool that requires an optional String, and a subcommand with an Int
\* with a Default that requires an optional String, as in
\* Test_RelationalConstraintsWithDefaults.
RequiresProgram ==
    Program(App,
        (App :> [c |-> NewCmd(App),
                 regs |-> << Local(SetRequires(SetShort(NewFlag("Bool", <<"a">>), <<"a">>),
                                               << <<"b">> >>)),
                             Local(SetOptional(SetFlagOnly(NewFlag("String", <<"b">>), TRUE),
                                               TRUE)) >>])
        @@ (Sub :> [c |-> NewCmd(Sub),
                    regs |-> << Local(SetRequires(SetDefault(SetFlagOnly(
                                    NewFlag("Int", <<"n">>), TRUE), 1), << <<"m">> >>)),
                                Local(SetOptional(SetFlagOnly(NewFlag("String", <<"m">>), TRUE),
                                                  TRUE)) >>]),
        << <<App, Sub>> >>,
        NoOpts,
        { Sub, <<"-", "a">>, <<"-", "-", "a", "=", "f", "a", "l", "s", "e">>,
          <<"-", "-", "b", "=", "x">>, <<"-", "-", "m", "=", "x">>,
          <<"-", "-", "n", "=", "2">> })

\* A Bool that excludes a required String registered after it, an optional
\* String excluded by one registered after it, a Bool registered with
\* WithBypassValidation, a subcommand with an Int with a Default that
\* excludes a required String, and a subcommand without flags, as in
\* Test_ExcludesFlags_RequiredFlagsShouldNotBeRequiredWhenExcluded.
ExcludesProgram ==
    Program(App,
        (App :> [c |-> NewCmd(App),
                 regs |-> << Local(SetExcludes(SetShort(NewFlag("Bool", <<"a">>), <<"a">>),
                                               << <<"b">> >>)),
                             Local(SetFlagOnly(NewFlag("String", <<"b">>), TRUE)),
                             Local(SetOptional(SetFlagOnly(NewFlag("String", <<"c">>), TRUE),
                                               TRUE)),
                             Local(SetExcludes(SetOptional(SetFlagOnly(
                                     NewFlag("String", <<"d">>), TRUE), TRUE),
                                     << <<"c">> >>)),
                             Bypass(NewFlag("Bool", <<"v", "e", "r">>)) >>])
        @@ (Sub :> [c |-> NewCmd(Sub),
                    regs |-> << Local(SetExcludes(SetDefault(SetFlagOnly(
                                    NewFlag("Int", <<"n">>), TRUE), 1), << <<"m">> >>)),
                                Local(SetFlagOnly(NewFlag("String", <<"m">>), TRUE)) >>])
        @@ (Aux :> [c |-> NewCmd(Aux), regs |-> <<>>]),
        << <<App, Sub>>, <<App, Aux>> >>,
        NoOpts,
        { Sub, Aux, <<"-", "a">>, <<"-", "-", "a", "=", "f", "a", "l", "s", "e">>,
          <<"-", "-", "b", "=", "x">>, <<"-", "-", "c", "=", "x">>,
          <<"-", "-", "d", "=", "x">>, <<"-", "-", "m", "=", "x">>,
          <<"-", "-", "n", "=", "2">>, <<"-", "-", "v", "e", "r">> })

\* A FlagOnly Bool registered first and a positional String registered after
\* it that both require an optional String, and a required String, as in
\* Test_RequiresWithDefaults_Scenario.
OrderProgram ==
    Program(App,
        (App :> [c |-> NewCmd(App),
                 regs |-> << Local(SetRequires(SetFlagOnly(SetShort(
                                     NewFlag("Bool", <<"a">>), <<"a">>), TRUE), << <<"z">> >>)),
                             Local(SetRequires(SetOptional(NewFlag("String", <<"p">>), TRUE),
                                               << <<"z">> >>)),
                             Local(SetOptional(SetFlagOnly(NewFlag("String", <<"z">>), TRUE),
                                               TRUE)),
                             Local(SetFlagOnly(NewFlag("String", <<"r">>), TRUE)) >>]),
        <<>>,
        NoOpts,
        { <<"-", "a">>, <<"x">>, <<"-", "-", "z", "=", "y">>, <<"-", "-", "r", "=", "y">>,
          <<"-", "-", "b", "a", "d">> })

\* An optional String, a required String and a subcommand with an optional
\* String, parsed with --help and -h among the tokens.
HelpProgram ==
    Program(App,
        (App :> [c |-> NewCmd(App),
                 regs |-> << Local(SetOptional(SetFlagOnly(
                                     NewFlag("String", <<"i", "n">>), TRUE), TRUE)),
                             Local(SetFlagOnly(NewFlag("String", <<"r">>), TRUE)) >>])
        @@ (Sub :> [c |-> NewCmd(Sub),
                    regs |-> << Local(SetOptional(SetFlagOnly(
                                    NewFlag("String", <<"m">>), TRUE), TRUE)) >>]),
        << <<App, Sub>> >>,
        NoOpts,
        { LongHelp, ShortHelp, Sub, <<"-", "-", "i", "n">>, <<"-", "-", "r", "=", "y">>,
          DashDash })

\* One positional String and a FlagOnly Int, parsed with ignoreUnknown, as
\* in Test_IgnoreUnknownArgs.
IgnoringProgram ==
    Program(App,
        (App :> [c |-> NewCmd(App),
                 regs |-> << Local(SetOptional(NewFlag("String", <<"y">>), TRUE)),
                             Local(SetOptional(SetFlagOnly(NewFlag("Int", <<"n">>), TRUE),
                                               TRUE)) >>]),
        <<>>,
        WithIgnoreUnknown(NoOpts, TRUE),
        { <<"a">>, <<"-", "u">>, <<"-", "-", "u", "n", "k">>, <<"-", "-", "n", "=", "5">> })

\* A global String shadowed by a non-global flag of the same name, a global
\* Bool whose short is taken over by a non-global Bool, an unshadowed global
\* Bool, and a subcommand that inherits the three globals.
ShadowProgram ==
    Program(App,
        (App :> [c |-> NewCmd(App),
                 regs |-> << Global(SetOptional(SetShort(NewFlag("String", <<"g", "l">>),
                                                         <<"g">>), TRUE)),
                             Local(SetOptional(SetFlagOnly(NewFlag("String", <<"g", "l">>),
                                                           TRUE), TRUE)),
                             Global(SetShort(NewFlag("Bool", <<"v", "e", "r", "b">>), <<"v">>)),
                             Local(SetShort(NewFlag("Bool", <<"v", "v">>), <<"v">>)),
                             Global(SetShort(NewFlag("Bool", <<"q">>), <<"q">>)) >>])
        @@ (Sub :> [c |-> NewCmd(Sub), regs |-> <<>>]),
        << <<App, Sub>> >>,
        NoOpts,
        { Sub, <<"-", "-", "g", "l", "=", "x">>, <<"-", "g", "=", "y">>, <<"-", "v">>,
          <<"-", "-", "v", "e", "r", "b">>, <<"-", "q">> })

EqValueTokens ==
    { <<"-", "a", "b", "=", "f", "a", "l", "s", "e">>, <<"-", "a", "=", "f", "a", "l", "s", "e">>,
      <<"-", "a", "b", "s", "=", "x">>, <<"-", "s", "=", "x">>, <<"-", "a", "b", "l", "=", "x">> }

\* A Bool short and one optional positional, with the tokens that are a
\* dash and nothing else: `-` and `-=x`.
DashProgram ==
    Program(App,
        (App :> [c |-> NewCmd(App),
                 regs |-> << Local(SetShort(SetFlagOnly(NewFlag("Bool", <<"a">>), TRUE), <<"a">>)),
                             Local(SetOptional(NewFlag("String", <<"p">>), TRUE)) >>]),
        <<>>,
        NoOpts,
        { <<"-">>, <<"-", "=", "x">>, <<"-", "a">>, <<"x">> })

Programs ==
    << DualProgram, TreeProgram, VariadicProgram, PositionalProgram,
       ClusterProgram(NextTokenTokens), ClusterProgram(EqValueTokens),
       NegativeProgram, DigitProgram(NoOpts),
       DigitProgram(WithVariadicUnknownFlags(NoOpts, TRUE)),
       CountProgram, DefaultsProgram,
       PermissiveProgram(WithIgnoreUnknown(NoOpts, TRUE)),
       PermissiveProgram(WithVariadicUnknownFlags(NoOpts, TRUE)),
       GlobalDefaultProgram, RequiresProgram, ExcludesProgram,
       OrderProgram, HelpProgram, IgnoringProgram, ShadowProgram,
       DashProgram >>

----------------------------------------------------------------------------
(* The state machine *)

RECURSIVE ArgLists(_, _)
ArgLists(tokens, n) ==
    IF n = 0 THEN {<<>>}
    ELSE LET shorter == ArgLists(tokens, n - 1)
         IN  shorter \cup {Append(a, t) : a \in {b \in shorter : Len(b) = n - 1},
                                          t \in tokens}

State ==
    [ cmds |-> cmds, vals |-> vals, cfg |-> cfg, pc |-> pc, cur |-> cur,
      rest |-> rest, base |-> base, i |-> i, seenDashDash |-> seenDashDash,
      numberShortsMode |-> numberShortsMode, result |-> result,
      reported |-> reported, trace |-> trace ]

\* A caller that calls ParseOrError on a Command with no parse hooks and no
\* custom usage function, before the call.
Plain ==
    [ entry |-> "ParseOrError", parseHooks |-> FALSE, customUsage |-> FALSE,
      at |-> "entry", returned |-> NoErr ]

\* No computeCompletions call was made.
NoCompletion == [n |-> 0]

\* The variables of the running call become those of machine state S.
SetCall(S) ==
    /\ cmds' = S.cmds /\ vals' = S.vals /\ cfg' = S.cfg /\ pc' = S.pc
    /\ cur' = S.cur /\ rest' = S.rest /\ base' = S.base /\ i' = S.i
    /\ seenDashDash' = S.seenDashDash /\ numberShortsMode' = S.numberShortsMode
    /\ result' = S.result /\ reported' = S.reported /\ trace' = S.trace

SetState(S) ==
    SetCall(S) /\ UNCHANGED <<prog, args, earlier, calls, caller, effects, completed>>

\* The machine state of a program before Parse is called.
StartOf(program) ==
    [ cmds |-> program.cmds, vals |-> program.vals, cfg |-> program.cfg,
      pc |-> "ready", cur |-> program.root, rest |-> <<>>, base |-> 0, i |-> 1,
      seenDashDash |-> FALSE, numberShortsMode |-> FALSE, result |-> NoErr,
      reported |-> <<>>, trace |-> <<>> ]

Start(n) == StartOf(Programs[n])

\* A program, one of the command lines tried on it, and the state before
\* Parse is called.
Begin(program) ==
    /\ args \in ArgLists(program.tokens, program.len)
    /\ cmds = program.cmds /\ vals = program.vals /\ cfg = program.cfg
    /\ pc = "ready" /\ cur = program.root /\ rest = <<>> /\ base = 0 /\ i = 1
    /\ seenDashDash = FALSE /\ numberShortsMode = FALSE /\ result = NoErr
    /\ reported = <<>> /\ trace = <<>> /\ earlier = <<>> /\ calls = <<>>
    /\ caller = Plain /\ effects = <<>> /\ completed = NoCompletion

Init == \E n \in DOMAIN Programs : prog = n /\ Begin(Programs[n])

\* ParseOrError(args): the code in front of the loop.
ParseOrError(S, args_) == Enter(S, S.cur, args_, 0, FALSE)

\* The whole parse of args_ by program n.
Parsed(n, args_) == Run(ParseOrError(Start(n), args_))

Parse == pc = "ready" /\ SetState(ParseOrError(State, args))

Scanning == pc = "scan" /\ i <= Len(rest)

\* One iteration of the loop, when it is of the given kind.
StepOf(S, kind) == S.trace[Len(S.trace)].kind = kind /\ SetState(S)

StepDashDash        == Scanning /\ StepOf(Step(State), "dashdash")
StepPositionalOnly  == Scanning /\ StepOf(Step(State), "positionalOnly")
StepSubcommand      == Scanning /\ StepOf(Step(State), "subcommand")
StepFlag            == Scanning /\ StepOf(Step(State), "flag")
StepNegativeNumber  == Scanning /\ StepOf(Step(State), "negative")
StepUnknownVariadic == Scanning /\ StepOf(Step(State), "unknownVariadic")
StepIgnored         == Scanning /\ StepOf(Step(State), "ignored")
StepFlagError       == Scanning /\ StepOf(Step(State), "flagError")
StepPositional      == Scanning /\ StepOf(Step(State), "positional")

Return == pc = "scan" /\ i > Len(rest) /\ SetState(Finish(State))

Next ==
    \/ Parse
    \/ StepDashDash
    \/ StepPositionalOnly
    \/ StepSubcommand
    \/ StepFlag
    \/ StepNegativeNumber
    \/ StepUnknownVariadic
    \/ StepIgnored
    \/ StepFlagError
    \/ StepPositional
    \/ Return

Spec == Init /\ [][Next]_vars

\* The next step of the call, whichever it is: the code in front of the
\* loop, one iteration, or the code behind the loop.
Proceed ==
    /\ pc # "done"
    /\ \E S \in {IF pc = "ready" THEN ParseOrError(State, args)
                  ELSE IF i > Len(rest) THEN Finish(State)
                  ELSE Step(State)} : SetState(S)

\* The programs whose parses are followed to their return.
FairPrograms == {2, 3, 7, 8, 9, 11, 14, 15, 17, 18, 19, 20, 21}

InitFair == \E n \in FairPrograms : prog = n /\ Begin(Programs[n])

\* Parse is a sequential call: while it has not returned, its next step is
\* taken.
SpecFair == InitFair /\ [][Next]_vars /\ WF_vars(Proceed)

\* What is kept of a Parse call that returned.
Returned ==
    [ args |-> args, cmds |-> cmds, vals |-> vals, result |-> result,
      reported |-> reported, trace |-> trace ]

\* The root Command of the program is parsed again, with new arguments: its
\* fields and the write-targets are as the call before left them.
Again(S, program, args_) ==
    ParseOrError([S EXCEPT !.cur = program.root, !.result = NoErr, !.reported = <<>>,
                           !.trace = <<>>], args_)

ParseAgainWith(program) ==
    /\ args' \in ArgLists(program.tokens, MaxAgainArgs)
    /\ SetCall(Again(State, program, args'))

ParseAgain ==
    /\ pc = "done"
    /\ Len(earlier) + 1 < MaxParses
    /\ earlier' = Append(earlier, Returned)
    /\ UNCHANGED <<prog, calls, caller, effects, completed>>
    /\ ParseAgainWith(Programs[prog])

NextAgain ==
    \/ Parse
    \/ StepDashDash
    \/ StepPositionalOnly
    \/ StepSubcommand
    \/ StepFlag
    \/ StepNegativeNumber
    \/ StepUnknownVariadic
    \/ StepIgnored
    \/ StepFlagError
    \/ StepPositional
    \/ Return
    \/ ParseAgain

\* The program makes up to MaxParses Parse calls on its root Command.
SpecAgain == Init /\ [][NextAgain]_vars



----------------------------------------------------------------------------
(* Building a command tree: a main function makes Register calls on the    *)
(* root Command, attaches the subcommand at some point in between, and     *)
(* then calls Parse once.                                                   *)

\* The number of Register calls made, and the longest command line parsed
\* by the tree they build.
MaxRegs == 3
MaxBuildArgs == 2

Gl == <<"g", "l">>
Vv == <<"v", "v">>

\* The flags a main function registers: one name with and without the one
\* short character, and a second name with that short.
BuildFlags ==
    { SetOptional(SetFlagOnly(NewFlag("Int", Gl), TRUE), TRUE),
      SetShort(SetOptional(SetFlagOnly(NewFlag("Int", Gl), TRUE), TRUE), <<"g">>),
      SetShort(SetOptional(SetFlagOnly(NewFlag("Int", Vv), TRUE), TRUE), <<"g">>) }

\* Three flags that Register refuses on their own.
RefusedFlags ==
    { NewFlag("Int", <<>>),
      SetPositionalOnly(SetFlagOnly(NewFlag("Int", <<"b">>), TRUE), TRUE),
      SetMin(SetDefault(NewFlag("Int", <<"m">>), 1), 2, TRUE) }

BuildTokens == { Sub, <<"-", "-", "g", "l", "=", "5">>, <<"-", "g", "=", "7">> }

\* ptr := new(T) in Register: a write-target no earlier call returned.
freshPtr(made, f) == ptrOf(f.Name) \o [k \in 1..Len(made) |-> "'"]

\* The state before the first Register call: NewCmd for the root and for
\* the subcommand, no write-target yet.
InitBuild ==
    /\ prog = 0 /\ args = <<>>
    /\ cmds = (App :> NewCmd(App)) @@ (Sub :> NewCmd(Sub))
    /\ vals = EmptyMap /\ cfg = NoOpts
    /\ pc = "build" /\ cur = App /\ rest = <<>> /\ base = 0 /\ i = 1
    /\ seenDashDash = FALSE /\ numberShortsMode = FALSE /\ result = NoErr
    /\ reported = <<>> /\ trace = <<>> /\ earlier = <<>> /\ calls = <<>>
    /\ caller = Plain /\ effects = <<>> /\ completed = NoCompletion

\* f.Register(root, WithGlobal(global)): the call, its write-target and its
\* error are recorded with the Command as it was before and is after.
RegisterFlag(f, global) ==
    LET Made(ptr, r) ==
            /\ cmds' = [cmds EXCEPT ![App] = r.c]
            /\ vals' = MapPut(vals, ptr, ZeroValue(f.kind))
            /\ calls' = Append(calls, [f |-> f, global |-> global, ptr |-> ptr,
                                       err |-> r.err, before |-> cmds[App],
                                       after |-> r.c, cmd |-> App])
        Allocated(ptr) == Made(ptr, RegisterWithPtr(cmds[App], f, ptr, global, FALSE))
    IN  Allocated(freshPtr(calls, f))

Register ==
    /\ pc = "build" /\ Len(calls) < MaxRegs
    /\ \E f \in BuildFlags, global \in BOOLEAN : RegisterFlag(f, global)
    /\ UNCHANGED <<prog, args, cfg, pc, cur, rest, base, i, seenDashDash,
                   numberShortsMode, result, reported, trace, earlier,
                   caller, effects, completed>>

RegisterRefused ==
    /\ pc = "build" /\ Len(calls) < MaxRegs
    /\ \E f \in RefusedFlags : RegisterFlag(f, FALSE)
    /\ UNCHANGED <<prog, args, cfg, pc, cur, rest, base, i, seenDashDash,
                   numberShortsMode, result, reported, trace, earlier,
                   caller, effects, completed>>

\* root.RegisterCmd(sub)
AttachSub ==
    /\ pc = "build" /\ Sub \notin cmds[App].subCmds
    /\ cmds' = RegisterCmd(cmds, App, Sub).cs
    /\ UNCHANGED <<prog, vals, args, cfg, pc, cur, rest, base, i, seenDashDash,
                   numberShortsMode, result, reported, trace, earlier, calls,
                   caller, effects, completed>>

\* root.ParseOrError(args): the whole call.
ParseBuilt ==
    /\ pc = "build"
    /\ args' \in ArgLists(BuildTokens, MaxBuildArgs)
    /\ \E S \in {Run(ParseOrError(State, args'))} : SetCall(S)
    /\ UNCHANGED <<prog, earlier, calls, caller, effects, completed>>

NextBuild ==
    \/ Register
    \/ RegisterRefused
    \/ AttachSub
    \/ ParseBuilt

SpecBuild == InitBuild /\ [][NextBuild]_vars

\* The main function up to its last registration call.
NextRegister ==
    \/ Register
    \/ RegisterRefused
    \/ AttachSub

SpecRegister == InitBuild /\ [][NextRegister]_vars

(* Registration on the subcommand as well as on the root.                  *)

\* f.Register(sub): a flag of the subcommand's own, registered before or
\* after root.RegisterCmd(sub).
RegisterSub ==
    /\ pc = "build" /\ Len(calls) < MaxRegs
    /\ \E f \in BuildFlags :
          LET Made(ptr, r) ==
                  /\ cmds' = [cmds EXCEPT ![Sub] = r.c]
                  /\ vals' = MapPut(vals, ptr, ZeroValue(f.kind))
                  /\ calls' = Append(calls, [f |-> f, global |-> FALSE, ptr |-> ptr,
                                             err |-> r.err, before |-> cmds[Sub],
                                             after |-> r.c, cmd |-> Sub])
              Allocated(ptr) == Made(ptr, RegisterWithPtr(cmds[Sub], f, ptr, FALSE, FALSE))
          IN  Allocated(freshPtr(calls, f))
    /\ UNCHANGED <<prog, args, cfg, pc, cur, rest, base, i, seenDashDash,
                   numberShortsMode, result, reported, trace, earlier,
                   caller, effects, completed>>

NextTree ==
    \/ Register
    \/ RegisterSub
    \/ AttachSub
    \/ ParseBuilt

\* The main function registers flags on the root and on the subcommand,
\* attaches the subcommand and parses.
SpecTree == InitBuild /\ [][NextTree]_vars

\* The machine state of a program whose root Command is c, with the
\* subcommand attached and every write-target as new(T) left it.
BuiltOf(c) ==
    [ cmds |-> RegisterCmd((App :> c) @@ (Sub :> NewCmd(Sub)), App, Sub).cs,
      vals |-> [p \in DOMAIN vals |-> 0], cfg |-> NoOpts,
      pc |-> "ready", cur |-> App, rest |-> <<>>, base |-> 0, i |-> 1,
      seenDashDash |-> FALSE, numberShortsMode |-> FALSE, result |-> NoErr,
      reported |-> <<>>, trace |-> <<>> ]

\* The state that root Command c is left in by ParseOrError(args_).
ParsedBy(c, args_) == Run(ParseOrError(BuiltOf(c), args_))

----------------------------------------------------------------------------
(* The entry points ParseOrExit and ParseOrError: the parse, the PostParse  *)
(* hook, the output and the exit function.                                  *)

\* A Requires reference to a flag that is never registered.
UndefinedProgram ==
    Program(App,
        (App :> [c |-> NewCmd(App),
                 regs |-> << Local(SetRequires(SetOptional(SetFlagOnly(
                                     NewFlag("String", <<"a">>), TRUE), TRUE),
                                               << <<"z">> >>)) >>]),
        << >>,
        NoOpts,
        { <<"-", "-", "a", "=", "x">>, LongHelp })

\* The programs whose callers are followed to their exit: one that asks for
\* help, fails on its input or succeeds, the same under WithDump(true), and
\* one with a configuration error.
ExitPrograms ==
    << HelpProgram, [HelpProgram EXCEPT !.cfg = WithDump(NoOpts, TRUE)],
       UndefinedProgram >>

\* The longest command line handed to an entry point.
MaxExitArgs == 2

\* err.(*helpInvokedError), err.(*dumpInvokedError), err.(*ProgrammingError)
IsHelpInvoked(err) == err = "help invoked"
IsDumpInvoked(err) == err = "dump invoked"
IsProgrammingError(err) == err = "Undefined flag"

\* An exit code that treats a help request as a failure.
exitCodeHelpFails(err) == IF IsDumpInvoked(err) THEN 0 ELSE 1

\* helpErr.exitCode and dumpErr.exitCode as every creation of the two errors
\* sets them, and the literal of the other two branches of ParseOrExit.
exitCode(err) == IF IsHelpInvoked(err) \/ IsDumpInvoked(err) THEN 0 ELSE 1

\* helpErr.useCustomUsage: whether the Command that saw the help request has
\* a custom usage function; only the root is given one.
useCustomUsage(S, who) == who.customUsage /\ S.cur = App

\* What ParseOrExit writes for err, in order, in front of its osExit call.
Output(S, who) ==
    IF IsHelpInvoked(S.result)
    THEN IF useCustomUsage(S, who) THEN << [op |-> "customUsage"] >>
         ELSE << [op |-> "write", to |-> "stdout", what |-> "usage"] >>
    ELSE IF IsDumpInvoked(S.result)
    THEN << [op |-> "write", to |-> "stdout", what |-> "dump"] >>
    ELSE IF IsProgrammingError(S.result)
    THEN << [op |-> "write", to |-> "stderr", what |-> "message"] >>
    ELSE << [op |-> "write", to |-> "stderr", what |-> "message"],
            [op |-> "write", to |-> "stderr", what |-> "newline"],
            [op |-> "write", to |-> "stderr", what |-> "usage"] >>

\* HelpInvokedErr and DumpInvokedErr, the values ParseOrError returns for
\* the two internal errors; every other error is returned as it is.
Sentinel(err) ==
    IF IsHelpInvoked(err) THEN "HelpInvokedErr"
    ELSE IF IsDumpInvoked(err) THEN "DumpInvokedErr"
    ELSE err

InitExit ==
    /\ prog = 0
    /\ earlier = <<>> /\ calls = <<>> /\ effects = <<>> /\ completed = NoCompletion
    /\ \E program \in SeqToSet(ExitPrograms) :
          /\ args \in ArgLists(program.tokens, MaxExitArgs)
          /\ cmds = program.cmds /\ vals = program.vals /\ cfg = program.cfg
    /\ pc = "ready" /\ cur = App /\ rest = <<>> /\ base = 0 /\ i = 1
    /\ seenDashDash = FALSE /\ numberShortsMode = FALSE /\ result = NoErr
    /\ reported = <<>> /\ trace = <<>>
    /\ \E e \in {"ParseOrExit", "ParseOrError"}, h \in BOOLEAN, u \in BOOLEAN :
          caller = [ entry |-> e, parseHooks |-> h, customUsage |-> u,
                     at |-> "entry", returned |-> NoErr ]

\* err := c.parse(args, opts...)
CallParse ==
    /\ caller.at = "entry"
    /\ \E S \in {Run(ParseOrError(State, args))} : SetCall(S)
    /\ caller' = [caller EXCEPT !.at = "parsed"]
    /\ UNCHANGED <<prog, args, earlier, calls, effects, completed>>

\* if c.parseHooks != nil && c.parseHooks.PostParse != nil { ... }
PostParse ==
    /\ caller.at = "parsed"
    /\ effects' = IF caller.parseHooks
                  THEN Append(effects, [op |-> "PostParse", err |-> result])
                  ELSE effects
    /\ caller' = [caller EXCEPT !.at = "hooked"]
    /\ UNCHANGED <<prog, cmds, vals, args, cfg, pc, cur, rest, base, i, seenDashDash,
                   numberShortsMode, result, reported, trace, earlier, calls,
                   completed>>

\* ParseOrExit with err != nil: the output of the branch err selects.
WriteOutput ==
    /\ caller.at = "hooked" /\ caller.entry = "ParseOrExit" /\ result # NoErr
    /\ effects' = effects \o Output(State, caller)
    /\ caller' = [caller EXCEPT !.at = "written"]
    /\ UNCHANGED <<prog, cmds, vals, args, cfg, pc, cur, rest, base, i, seenDashDash,
                   numberShortsMode, result, reported, trace, earlier, calls,
                   completed>>

\* ParseOrExit with err != nil: the osExit call that ends the branch.
Exit ==
    /\ caller.at = "written"
    /\ effects' = Append(effects, [op |-> "osExit", code |-> exitCode(result)])
    /\ caller' = [caller EXCEPT !.at = "returned", !.returned = NoErr]
    /\ UNCHANGED <<prog, cmds, vals, args, cfg, pc, cur, rest, base, i, seenDashDash,
                   numberShortsMode, result, reported, trace, earlier, calls,
                   completed>>

\* ParseOrExit with err == nil returns.
ReturnFromExit ==
    /\ caller.at = "hooked" /\ caller.entry = "ParseOrExit" /\ result = NoErr
    /\ caller' = [caller EXCEPT !.at = "returned"]
    /\ UNCHANGED <<prog, cmds, vals, args, cfg, pc, cur, rest, base, i, seenDashDash,
                   numberShortsMode, result, reported, trace, earlier, calls, effects,
                   completed>>

\* ParseOrError after the hook: the custom usage function on a help request,
\* and the error it returns.
ReturnError ==
    /\ caller.at = "hooked" /\ caller.entry = "ParseOrError"
    /\ effects' = IF IsHelpInvoked(result) /\ useCustomUsage(State, caller)
                  THEN Append(effects, [op |-> "customUsage"])
                  ELSE effects
    /\ caller' = [caller EXCEPT !.at = "returned", !.returned = Sentinel(result)]
    /\ UNCHANGED <<prog, cmds, vals, args, cfg, pc, cur, rest, base, i, seenDashDash,
                   numberShortsMode, result, reported, trace, earlier, calls,
                   completed>>

NextExit ==
    \/ CallParse
    \/ PostParse
    \/ WriteOutput
    \/ Exit
    \/ ReturnFromExit
    \/ ReturnError

SpecExit == InitExit /\ [][NextExit]_vars

----------------------------------------------------------------------------
(* ResetParseState between two Parse calls on one Command tree.             *)

\* c.ResetParseState() on the Command called name: its own records, its
\* flags' values through setDefaults, then every subcommand.
RECURSIVE ResetParseState(_, _)
ResetParseState(S, name) ==
    LET c == [S.cmds[name] EXCEPT !.used = FALSE, !.configured = {},
                                  !.unknownArgs = <<>>, !.lastVariadicFlag = <<>>,
                                  !.sawFlag = FALSE]
        RECURSIVE Subs(_, _)
        Subs(S1, todo) ==
            IF todo = {} THEN S1
            ELSE LET n == CHOOSE x \in todo : TRUE
                 IN  Subs(ResetParseState([S1 EXCEPT !.cmds[n].used = FALSE], n),
                          todo \ {n})
    IN  Subs([S EXCEPT !.cmds[name] = c, !.vals = setDefaults(c, S.vals)], c.subCmds)

\* root.ParseOrError(args): the whole first call.
ParseAll ==
    /\ pc = "ready"
    /\ \E S \in {Run(ParseOrError(State, args))} : SetCall(S)
    /\ UNCHANGED <<prog, args, earlier, calls, caller, effects, completed>>

\* root.ResetParseState() after a Parse call returned.
Reset ==
    /\ pc = "done" /\ earlier = <<>>
    /\ earlier' = << Returned >>
    /\ \E S \in {ResetParseState(State, Programs[prog].root)} : SetCall([S EXCEPT !.pc = "reset"])
    /\ UNCHANGED <<prog, args, calls, caller, effects, completed>>

\* root.ParseOrError(args) after the reset: the whole call.
ParseAfterReset ==
    /\ pc = "reset"
    /\ args' \in ArgLists(Programs[prog].tokens, MaxAgainArgs)
    /\ \E S \in {Run(Again(State, Programs[prog], args'))} : SetCall(S)
    /\ UNCHANGED <<prog, earlier, calls, caller, effects, completed>>

NextReset ==
    \/ ParseAll
    \/ Reset
    \/ ParseAfterReset

SpecReset == Init /\ [][NextReset]_vars

----------------------------------------------------------------------------
(* Runs of one program on one command line under the iteration orders of   *)
(* Go's maps.                                                               *)

\* Two flags whose Requires and Excludes name flags that are never
\* registered, on the root and on a subcommand.
DanglingProgram ==
    Program(App,
        (App :> [c |-> NewCmd(App),
                 regs |-> << Local(SetRequires(SetOptional(SetFlagOnly(
                                     NewFlag("Int", <<"a">>), TRUE), TRUE),
                                               << <<"x">> >>)),
                             Local(SetExcludes(SetOptional(SetFlagOnly(
                                     NewFlag("Int", <<"b">>), TRUE), TRUE),
                                               << <<"a">>, <<"y">> >>)) >>])
        @@ (Sub :> [c |-> NewCmd(Sub),
                    regs |-> << >>]),
        << <<App, Sub>> >>,
        NoOpts,
        { Sub, <<"-", "-", "a", "=", "1">>, <<"-", "-", "b", "=", "2">>, LongHelp })

OrderPrograms == << DanglingProgram, UndefinedProgram, RequiresProgram, ExcludesProgram >>

InitOrder == \E n \in DOMAIN OrderPrograms : prog = n /\ Begin(OrderPrograms[n])

\* The returns of the call that ends in S under every iteration order: the
\* order decides which undefined reference the error names.
InSomeOrder(S) ==
    IF S.result = "Undefined flag"
    THEN {[S EXCEPT !.reported = <<n>>] : n \in undefinedReferences(S.cmds[S.cur])}
    ELSE {S}

\* root.ParseOrError(args): the whole call.
ParseInSomeOrder ==
    /\ pc = "ready"
    /\ \E S \in InSomeOrder(Run(ParseOrError(State, args))) : SetCall(S)
    /\ UNCHANGED <<prog, args, earlier, calls, caller, effects, completed>>

NextOrder == ParseInSomeOrder

SpecOrder == InitOrder /\ [][NextOrder]_vars

----------------------------------------------------------------------------
(* Completion: computeCompletions on a partial command line.               *)

isBoolFlag(c, name) == name \in DOMAIN c.flags /\ c.flags[name].kind = "Bool"

\* The names shortToName gives for the characters of shorts.
shortNames(c, shorts) ==
    { c.shortToName[<<shorts[j]>>] :
        j \in {j2 \in 1..Len(shorts) : <<shorts[j2]>> \in DOMAIN c.shortToName} }

\* scanFlags(cmd, arg, usedFlags): the map after the call.
scanFlags(c, arg, usedFlags) ==
    IF HasPrefix(arg, DashDash) THEN
        LET flagPart == SubSeq(arg, 3, Len(arg))
            idx      == IndexOf(flagPart, <<"=">>)
        IN  IF idx # 0 THEN usedFlags \cup {SubSeq(flagPart, 1, idx - 1)}
            ELSE IF flagPart \in DOMAIN c.flags THEN usedFlags \cup {flagPart}
            ELSE usedFlags
    ELSE IF HasPrefix(arg, <<"-">>) /\ arg # <<"-">> THEN
        LET shorts == SubSeq(arg, 2, Len(arg))
            idx    == IndexOf(shorts, <<"=">>)
        IN  IF idx # 0 THEN usedFlags \cup shortNames(c, SubSeq(shorts, 1, idx - 1))
            ELSE usedFlags \cup shortNames(c, shorts)
    ELSE usedFlags

\* flagConsumedArgs(cmd, arg): how many args a flag token is taken to
\* consume, itself included.
flagConsumedArgs(c, arg) ==
    IF HasPrefix(arg, DashDash) THEN
        LET flagPart == SubSeq(arg, 3, Len(arg))
        IN  IF IndexOf(flagPart, <<"=">>) # 0 THEN 1
            ELSE IF flagPart \notin DOMAIN c.flags THEN 1
            ELSE IF isBoolFlag(c, flagPart) THEN 1
            ELSE 2
    ELSE IF HasPrefix(arg, <<"-">>) /\ arg # <<"-">> THEN
        LET shorts   == SubSeq(arg, 2, Len(arg))
            lastChar == << shorts[Len(shorts)] >>
        IN  IF IndexOf(shorts, <<"=">>) # 0 THEN 1
            ELSE IF lastChar \notin DOMAIN c.shortToName THEN 1
            ELSE IF c.shortToName[lastChar] \notin DOMAIN c.flags THEN 1
            ELSE IF isBoolFlag(c, c.shortToName[lastChar]) THEN 1
            ELSE 2
    ELSE 1

\* The first loop of computeCompletions from index k (1-based) on: K holds
\* the Command tree, activeCmd, usedFlags, sawDashDash and consumed.
RECURSIVE walkSubcommands(_, _, _)
walkSubcommands(K, args_, k) ==
    LET c   == K.cmds[K.activeCmd]
        arg == args_[k]
    IN  IF k > Len(args_) - 1 THEN K
        ELSE IF arg = DashDash THEN [K EXCEPT !.sawDashDash = TRUE, !.consumed = k]
        ELSE IF HasPrefix(arg, <<"-">>)
        THEN walkSubcommands([K EXCEPT !.usedFlags = scanFlags(c, arg, @)], args_,
                             k + flagConsumedArgs(c, arg))
        ELSE IF arg \in c.subCmds
        THEN walkSubcommands([K EXCEPT !.cmds[arg] = applyGlobalFlags(c, @),
                                       !.activeCmd = arg, !.consumed = k],
                             args_, k + 1)
        ELSE K

\* The help flag registered on the active command when it has none.
ensureHelp(K) ==
    LET c == K.cmds[K.activeCmd]
        Registered(reg) ==
            [K EXCEPT !.cmds[K.activeCmd] = reg.c,
                      !.vals = IF reg.err = NoErr
                               THEN MapPut(@, helpPtr(K.activeCmd), FALSE) ELSE @]
    IN  IF c.helpEnabled /\ HelpName \notin DOMAIN c.flags
        THEN Registered(RegisterWithPtr(c, helpFlag, helpPtr(K.activeCmd), TRUE, FALSE))
        ELSE K

\* The scan of precedingArgs from index k on: K gains positionalCount,
\* prevNeedsValue and prevFlagName.
RECURSIVE scanPreceding(_, _, _)
scanPreceding(K, pre, k) ==
    LET c   == K.cmds[K.activeCmd]
        arg == pre[k]
        Valued(K1, flagName, bool) ==
            IF bool THEN scanPreceding(K1, pre, k + 1)
            ELSE IF k + 1 <= Len(pre) THEN scanPreceding(K1, pre, k + 2)
            ELSE [K1 EXCEPT !.prevNeedsValue = TRUE, !.prevFlagName = flagName]
    IN  IF k > Len(pre) THEN K
        ELSE IF arg = DashDash
        THEN [K EXCEPT !.sawDashDash = TRUE, !.positionalCount = @ + (Len(pre) - k)]
        ELSE IF HasPrefix(arg, DashDash) THEN
            LET flagPart == SubSeq(arg, 3, Len(arg))
                idx      == IndexOf(flagPart, <<"=">>)
            IN  IF idx # 0
                THEN scanPreceding([K EXCEPT !.usedFlags = @ \cup {SubSeq(flagPart, 1, idx - 1)}],
                                   pre, k + 1)
                ELSE IF flagPart \notin DOMAIN c.flags THEN scanPreceding(K, pre, k + 1)
                ELSE Valued([K EXCEPT !.usedFlags = @ \cup {flagPart}], flagPart,
                            isBoolFlag(c, flagPart))
        ELSE IF HasPrefix(arg, <<"-">>) /\ arg # <<"-">> THEN
            LET shorts == SubSeq(arg, 2, Len(arg))
                idx    == IndexOf(shorts, <<"=">>)
                last   == << shorts[Len(shorts)] >>
                K1     == [K EXCEPT !.usedFlags = @ \cup shortNames(c, shorts)]
            IN  IF idx # 0
                THEN scanPreceding([K EXCEPT !.usedFlags =
                                        @ \cup shortNames(c, SubSeq(shorts, 1, idx - 1))],
                                   pre, k + 1)
                ELSE IF last \notin DOMAIN c.shortToName THEN scanPreceding(K1, pre, k + 1)
                ELSE Valued(K1, c.shortToName[last], isBoolFlag(c, c.shortToName[last]))
        ELSE scanPreceding([K EXCEPT !.positionalCount = @ + 1], pre, k + 1)

\* The positional flag completeSubcommandsAndPositionals completes, <<>> when
\* its loop ends without one: FlagOnly flags are passed over, a flag that
\* is not variadic is skipped while skipped < positionalCount.
RECURSIVE activePositional(_, _, _, _)
activePositional(c, positionalCount, k, skipped) ==
    IF k > Len(c.positional) THEN <<>>
    ELSE LET name == c.positional[k]
             flag == c.flags[name]
         IN  IF flag.FlagOnly THEN activePositional(c, positionalCount, k + 1, skipped)
             ELSE IF ~isVariadicFlag(flag) /\ skipped < positionalCount
             THEN activePositional(c, positionalCount, k + 1, skipped + 1)
             ELSE name

\* The branch computeCompletions takes for the word toComplete, and the
\* flag whose values it offers.
completionCase(K, toComplete) ==
    LET c     == K.cmds[K.activeCmd]
        eqIdx == IndexOf(toComplete, <<"=">>)
        lastShort == << toComplete[eqIdx - 1] >>
        Positionals(subs) ==
            [kind |-> "positional", flag |-> activePositional(c, K.positionalCount, 1, 0),
             includeSubcmds |-> subs]
        Value(name) ==
            [kind |-> "value", flag |-> IF name \in DOMAIN c.flags THEN name ELSE <<>>,
             includeSubcmds |-> FALSE]
        Names == [kind |-> "names", flag |-> <<>>, includeSubcmds |-> FALSE]
    IN  IF K.sawDashDash THEN Positionals(FALSE)
        ELSE IF K.prevNeedsValue THEN Value(K.prevFlagName)
        ELSE IF HasPrefix(toComplete, DashDash) /\ eqIdx # 0
        THEN Value(SubSeq(toComplete, 3, eqIdx - 1))
        ELSE IF HasPrefix(toComplete, <<"-">>) /\ eqIdx # 0 THEN
            IF eqIdx > 2 /\ lastShort \in DOMAIN c.shortToName
            THEN Value(c.shortToName[lastShort])
            ELSE Value(<<>>)
        ELSE IF HasPrefix(toComplete, <<"-">>) THEN Names
        ELSE Positionals(TRUE)

\* The values of an enum constraint that start with toComplete.
enumCandidates(flag, toComplete) ==
    {flag.EnumConstraint[k] :
        k \in {k2 \in DOMAIN flag.EnumConstraint :
                  HasPrefix(flag.EnumConstraint[k2], toComplete)}}

\* completeFlagValue with its first two tests in the other order: the enum
\* constraint is consulted before the completion function.
completeFlagValueEnumFirst(c, flagName, toComplete) ==
    IF flagName \notin DOMAIN c.flags
    THEN [candidates |-> {}, directive |-> CompletionDirectiveDefault, source |-> "none"]
    ELSE LET flag == c.flags[flagName]
         IN  IF flag.kind = "String" /\ flag.hasEnum
             THEN [candidates |-> enumCandidates(flag, toComplete),
                   directive |-> CompletionDirectiveNoFileComp, source |-> "enum"]
             ELSE IF flag.hasCompletionFunc
             THEN [candidates |-> flag.CompletionFunc.candidates,
                   directive |-> flag.CompletionFunc.directive, source |-> "func"]
             ELSE [candidates |-> {}, directive |-> CompletionDirectiveDefault,
                   source |-> "file"]

\* completeFlagValue(flagName, toComplete): the candidates (sort.Strings
\* orders them; the set is kept), the directive, and the source they come
\* from.
completeFlagValue(c, flagName, toComplete) ==
    IF flagName \notin DOMAIN c.flags
    THEN [candidates |-> {}, directive |-> CompletionDirectiveDefault, source |-> "none"]
    ELSE LET flag == c.flags[flagName]
         IN  IF flag.hasCompletionFunc
             THEN [candidates |-> flag.CompletionFunc.candidates,
                   directive |-> flag.CompletionFunc.directive, source |-> "func"]
             ELSE IF flag.kind = "String" /\ flag.hasEnum
             THEN [candidates |-> enumCandidates(flag, toComplete),
                   directive |-> CompletionDirectiveNoFileComp, source |-> "enum"]
             ELSE [candidates |-> {}, directive |-> CompletionDirectiveDefault,
                   source |-> "file"]

\* The flags that completeFlagNames and completeShortAndLongFlags range
\* over: not hidden, not positional-only, and not used unless a list.
offerable(c, usedFlags) ==
    {name \in DOMAIN c.flags :
        /\ ~c.flags[name].Hidden
        /\ ~c.flags[name].PositionalOnly
        /\ ~(name \in usedFlags /\ ~isSliceKind(c.flags[name].kind))}

completeFlagNames(c, prefix, usedFlags) ==
    [candidates |-> {DashDash \o name :
                        name \in {n \in offerable(c, usedFlags) : HasPrefix(n, prefix)}},
     directive |-> CompletionDirectiveNoFileComp, source |-> "names"]

completeShortAndLongFlags(c, toComplete, usedFlags) ==
    [candidates |->
        {DashDash \o name :
            name \in {n \in offerable(c, usedFlags) : HasPrefix(DashDash \o n, toComplete)}}
        \cup {<<"-">> \o c.flags[name].Short :
                name \in {n \in offerable(c, usedFlags) :
                             /\ c.flags[n].Short # <<>>
                             /\ HasPrefix(<<"-">> \o c.flags[n].Short, toComplete)}},
     directive |-> CompletionDirectiveNoFileComp, source |-> "names"]

\* completeSubcommandsAndPositionals: the subcommand names, then the
\* candidates of the positional flag being completed.
completeSubcommandsAndPositionals(c, toComplete, positionalCount, includeSubcmds) ==
    LET subs == IF includeSubcmds THEN {n \in c.subCmds : HasPrefix(n, toComplete)} ELSE {}
        name == activePositional(c, positionalCount, 1, 0)
        flag == c.flags[name]
    IN  IF name = <<>>
        THEN [candidates |-> subs, directive |-> CompletionDirectiveNoFileComp,
              source |-> "none"]
        ELSE IF flag.hasCompletionFunc
        THEN [candidates |-> subs \cup flag.CompletionFunc.candidates,
              directive |-> IF subs = {} THEN flag.CompletionFunc.directive
                            ELSE CompletionDirectiveNoFileComp,
              source |-> "func"]
        ELSE IF flag.kind = "String" /\ flag.hasEnum
        THEN [candidates |-> subs \cup enumCandidates(flag, toComplete),
              directive |-> CompletionDirectiveNoFileComp, source |-> "enum"]
        ELSE [candidates |-> subs,
              directive |-> IF subs = {} THEN CompletionDirectiveDefault
                            ELSE CompletionDirectiveNoFileComp,
              source |-> "file"]

\* What computeCompletions returns for the word toComplete: the branches of
\* completionCase, each with the call it makes.
completionReply(K, toComplete) ==
    LET c     == K.cmds[K.activeCmd]
        eqIdx == IndexOf(toComplete, <<"=">>)
        lastShort == << toComplete[eqIdx - 1] >>
        Prefixed(r) ==
            [r EXCEPT !.candidates = {SubSeq(toComplete, 1, eqIdx) \o v : v \in @}]
    IN  IF K.sawDashDash
        THEN completeSubcommandsAndPositionals(c, toComplete, K.positionalCount, FALSE)
        ELSE IF K.prevNeedsValue THEN completeFlagValue(c, K.prevFlagName, toComplete)
        ELSE IF HasPrefix(toComplete, DashDash) /\ eqIdx # 0
        THEN Prefixed(completeFlagValue(c, SubSeq(toComplete, 3, eqIdx - 1),
                                        SubSeq(toComplete, eqIdx + 1, Len(toComplete))))
        ELSE IF HasPrefix(toComplete, <<"-">>) /\ eqIdx # 0 THEN
            IF eqIdx > 2 /\ lastShort \in DOMAIN c.shortToName
            THEN Prefixed(completeFlagValue(c, c.shortToName[lastShort],
                                            SubSeq(toComplete, eqIdx + 1, Len(toComplete))))
            ELSE [candidates |-> {}, directive |-> CompletionDirectiveDefault,
                  source |-> "none"]
        ELSE IF HasPrefix(toComplete, DashDash)
        THEN completeFlagNames(c, SubSeq(toComplete, 3, Len(toComplete)), K.usedFlags)
        ELSE IF HasPrefix(toComplete, <<"-">>)
        THEN completeShortAndLongFlags(c, toComplete, K.usedFlags)
        ELSE completeSubcommandsAndPositionals(c, toComplete, K.positionalCount, TRUE)

\* computeCompletions(args) on the Command called name: the Command tree
\* and the write-targets it leaves, the active command and what it offers.
computeCompletions(cs, vals_, name, args_) ==
    LET Offered(K, toComplete) ==
            [cmds |-> K.cmds, vals |-> K.vals, activeCmd |-> K.activeCmd,
             usedFlags |-> K.usedFlags, positionalCount |-> K.positionalCount,
             offer |-> completionCase(K, toComplete),
             reply |-> completionReply(K, toComplete)]
        Scanned(K, remaining) ==
            IF Len(remaining) = 0 THEN Offered(K, <<>>)
            ELSE Offered(scanPreceding(K, SubSeq(remaining, 1, Len(remaining) - 1), 1),
                         remaining[Len(remaining)])
        Walked(K) == Scanned(ensureHelp(K), SubSeq(args_, K.consumed + 1, Len(args_)))
    IN  Walked(walkSubcommands(
            [cmds |-> cs, vals |-> vals_, activeCmd |-> name, usedFlags |-> {},
             sawDashDash |-> FALSE, consumed |-> 0, positionalCount |-> 0,
             prevNeedsValue |-> FALSE, prevFlagName |-> <<>>], args_, 1))

\* The programs whose command lines are completed, the longest partial
\* command line, and the number of computeCompletions calls made.
\* A completion function, an enum constraint, both and neither, on flags
\* that are FlagOnly, positional and PositionalOnly; a hidden flag, an Int
\* and a Bool with shorts, and a subcommand.
someFunc == [candidates |-> {<<"c">>}, directive |-> CompletionDirectiveNoFileComp]

CompletionProgram ==
    Program(App,
        (App :> [c |-> NewCmd(App),
                 regs |-> << Local(SetCompletionFunc(
                                 SetEnumConstraint(
                                     SetOptional(SetFlagOnly(NewFlag("String", <<"f", "m", "t">>),
                                                             TRUE), TRUE),
                                     << <<"j">>, <<"y">> >>), someFunc)),
                             Local(SetOptional(SetFlagOnly(NewFlag("String", <<"l", "o", "g">>),
                                                           TRUE), TRUE)),
                             Local(SetEnumConstraint(
                                     SetOptional(NewFlag("String", <<"m", "o", "d", "e">>), TRUE),
                                     << <<"a">>, <<"b">> >>)),
                             Local(SetHidden(SetFlagOnly(NewFlag("Bool", <<"h", "i", "d">>),
                                                         TRUE), TRUE)),
                             Local(SetShort(SetOptional(SetFlagOnly(
                                     NewFlag("Int", <<"n", "u", "m">>), TRUE), TRUE), <<"n">>)),
                             Local(SetShort(SetFlagOnly(NewFlag("Bool", <<"v", "e", "r", "b">>),
                                                        TRUE), <<"v">>)),
                             Local(SetPositionalOnly(
                                     SetOptional(NewFlag("String", <<"p", "o">>), TRUE), TRUE)) >>])
        @@ (Sub :> [c |-> NewCmd(Sub), regs |-> <<>>]),
        << <<App, Sub>> >>,
        NoOpts,
        { <<"-", "-", "f", "m", "t">>, <<"-", "-", "l", "o", "g">>, <<"-", "n">>,
          <<"-", "v">>, DashDash, <<"a">>, <<"-", "-", "m", "o", "d", "e", "=">> })

CompletePrograms ==
    << DualProgram, TreeProgram, PositionalProgram, HelpProgram, VariadicProgram,
       CompletionProgram >>
MaxCompleteArgs == 3
MaxCompletions == 2

\* A program before its first call; nothing is parsed yet.
InitComplete ==
    /\ prog \in DOMAIN CompletePrograms
    /\ args = <<>>
    /\ cmds = CompletePrograms[prog].cmds /\ vals = CompletePrograms[prog].vals
    /\ cfg = CompletePrograms[prog].cfg
    /\ pc = "ready" /\ cur = CompletePrograms[prog].root
    /\ rest = <<>> /\ base = 0 /\ i = 1
    /\ seenDashDash = FALSE /\ numberShortsMode = FALSE /\ result = NoErr
    /\ reported = <<>> /\ trace = <<>> /\ earlier = <<>> /\ calls = <<>>
    /\ caller = Plain /\ effects = <<>> /\ completed = NoCompletion

\* root.computeCompletions(partial): the words of partial are the program's
\* tokens, and the word being completed may be empty.
CompletionOf(partial) ==
    LET Called(r) ==
            /\ completed' = [n |-> completed.n + 1, args |-> partial,
                             before |-> [cmds |-> cmds, vals |-> vals],
                             activeCmd |-> r.activeCmd, offer |-> r.offer,
                             positionalCount |-> r.positionalCount,
                             usedFlags |-> r.usedFlags, reply |-> r.reply]
            /\ cmds' = r.cmds /\ vals' = r.vals
    IN  Called(computeCompletions(cmds, vals, CompletePrograms[prog].root, partial))

Complete ==
    /\ pc = "ready" /\ completed.n < MaxCompletions
    /\ \E partial \in ArgLists(CompletePrograms[prog].tokens \cup {<<>>}, MaxCompleteArgs) :
          CompletionOf(partial)
    /\ UNCHANGED <<prog, args, cfg, pc, cur, rest, base, i, seenDashDash,
                   numberShortsMode, result, reported, trace, earlier, calls,
                   caller, effects>>

\* root.ParseOrError(args) after the completion calls, on the command line
\* that was completed last: the whole call.
ParseCompleted ==
    /\ pc = "ready" /\ completed.n > 0
    /\ args' = completed.args
    /\ \E S \in {Run(ParseOrError(State, args'))} : SetCall(S)
    /\ UNCHANGED <<prog, earlier, calls, caller, effects, completed>>

NextComplete ==
    \/ Complete
    \/ ParseCompleted

SpecComplete == InitComplete /\ [][NextComplete]_vars

\* Completion calls alone, on the program with completion functions and
\* enum constraints (the last of CompletePrograms).
InitValues == InitComplete /\ prog = Len(CompletePrograms)

\* root.computeCompletions(partial) on the program as it was built.
CompleteValue ==
    /\ pc = "ready" /\ completed.n = 0
    /\ \E partial \in ArgLists(CompletePrograms[prog].tokens \cup {<<>>}, MaxCompleteArgs) :
          CompletionOf(partial)
    /\ UNCHANGED <<prog, args, cfg, pc, cur, rest, base, i, seenDashDash,
                   numberShortsMode, result, reported, trace, earlier, calls,
                   caller, effects>>

NextValues == CompleteValue

SpecValues == InitValues /\ [][NextValues]_vars

----------------------------------------------------------------------------
(* Observations on a finished parse *)

Replace(a, k, new) == SubSeq(a, 1, k - 1) \o new \o SubSeq(a, k + 1, Len(a))

\* The parts of a token of the form --name=value.
LongName(tok) == SubSeq(tok, 3, IndexOf(tok, <<"=">>) - 1)
LongValue(tok) == SubSeq(tok, IndexOf(tok, <<"=">>) + 1, Len(tok))
IsLongEq(tok) == HasPrefix(tok, DashDash) /\ IndexOf(tok, <<"=">>) > 3

\* The loop iterations of run R that marked flag name of command c
\* configured or stored to its write-target.
Touching(R, c, name) ==
    {j \in 1..Len(R.trace) :
        /\ R.trace[j].cmd = c
        /\ \/ name \in SeqToSet(R.trace[j].mk)
           \/ R.cmds[c].flags[name].Value \in SeqToSet(R.trace[j].wr)}

\* No token other than the ones of the iteration at position k assigns to
\* the flag, and that iteration takes at most n tokens.
OnlyAt(R, c, name, k, n) ==
    \A j \in Touching(R, c, name) : R.trace[j].at = k /\ R.trace[j].consumed <= n

\* What a caller sees of flag name of command c after run R.
Observed(R, c, name) ==
    [ value      |-> R.vals[R.cmds[c].flags[name].Value],
      configured |-> name \in R.cmds[c].configured,
      ok         |-> R.result = NoErr ]

\* The flag that a positional token would go to at the point of the scan
\* where event e was recorded ("" if none would take it).
Slot(e) ==
    assignLoop([c |-> e.pre.c, vals |-> e.pre.vals, wr |-> <<>>, mk |-> <<>>],
               e.tok, e.pre.seenDashDash, 1).to

\* Event e of the finished parse is --name=value for a non-bool flag that
\* is neither FlagOnly nor PositionalOnly, at a point of the scan where a
\* positional token would go to that flag.
DualNatureEvent(e) ==
    /\ e.kind \in {"flag", "flagError", "ignored", "unknownVariadic"}
    /\ IsLongEq(e.tok)
    /\ LongName(e.tok) \in DOMAIN cmds[e.cmd].flags
    /\ LET f == cmds[e.cmd].flags[LongName(e.tok)]
       IN  f.kind # "Bool" /\ ~f.FlagOnly /\ ~f.PositionalOnly
    /\ Slot(e) = LongName(e.tok)

\* The same command line with the token of e written as "--name value",
\* and as the bare value.
SpaceForm(e) ==
    Parsed(prog, Replace(args, e.at, << DashDash \o LongName(e.tok), LongValue(e.tok) >>))
PositionalForm(e) == Parsed(prog, Replace(args, e.at, << LongValue(e.tok) >>))

\* The scan of run R reaches the token at position k: no earlier flag took
\* it as its value.
ScanReaches(R, k) == \E j \in 1..Len(R.trace) : R.trace[j].at = k

NoOtherAssignment(e) ==
    /\ ScanReaches(SpaceForm(e), e.at)
    /\ ScanReaches(PositionalForm(e), e.at)
    /\ OnlyAt(State, e.cmd, LongName(e.tok), e.at, 1)
    /\ OnlyAt(SpaceForm(e), e.cmd, LongName(e.tok), e.at, 2)
    /\ OnlyAt(PositionalForm(e), e.cmd, LongName(e.tok), e.at, 1)

ThreeFormsAgree(e) ==
    /\ Observed(State, e.cmd, LongName(e.tok)) = Observed(SpaceForm(e), e.cmd, LongName(e.tok))
    /\ Observed(State, e.cmd, LongName(e.tok)) = Observed(PositionalForm(e), e.cmd, LongName(e.tok))

\* The value would be scanned as a positional token: it does not start
\* with "-" and does not name a subcommand.
PlainValue(e) ==
    /\ ~HasPrefix(LongValue(e.tok), <<"-">>)
    /\ LongValue(e.tok) \notin cmds[e.cmd].subCmds

----------------------------------------------------------------------------
(* Claims *)

Before(j) == {h \in 1..(j - 1) : trace[h].cmd = trace[j].cmd}

\* Iteration j ran in positional-only mode: an earlier iteration of the
\* same call took the "--" marker.
AfterDashDash(j) == \E h \in Before(j) : trace[h].kind = "dashdash"

\* The write-targets of the flags of command c.
Targets(c) == {cmds[c].flags[n].Value : n \in DOMAIN cmds[c].flags}

\* C2: outside positional-only mode a scanned token without "-" prefix that
\* names a subcommand of the running command is dispatched to it, whatever
\* positional flag is still unfilled; every later iteration runs in the
\* subcommand and stores only to the subcommand's flags; and the result is
\* the subcommand's own, the parent's validateRequired having no part in it.
C2_SubcommandPriority ==
    /\ \A j \in 1..Len(trace) :
           /\ ~HasPrefix(trace[j].tok, <<"-">>)
           /\ trace[j].tok \in cmds[trace[j].cmd].subCmds
           /\ ~AfterDashDash(j)
           => /\ trace[j].kind = "subcommand"
              /\ trace[j].wr = <<>> /\ trace[j].mk = <<>>
              /\ cmds[trace[j].tok].used
              /\ \A h \in (j + 1)..Len(trace) :
                     /\ trace[h].cmd # trace[j].cmd
                     /\ SeqToSet(trace[h].wr) \subseteq Targets(trace[h].cmd)
                     /\ SeqToSet(trace[h].mk) \subseteq DOMAIN cmds[trace[h].cmd].flags
    /\ pc = "done" /\ cur # Programs[prog].root /\ result = "Missing required arguments"
           => missingRequired(cmds[cur], vals) # <<>>

\* C2 witness: a finished parse that dispatched while the parent's required
\* positional was still unfilled, and succeeded.
C2_Witness ==
    /\ pc = "done" /\ result = NoErr
    /\ \E j \in 1..Len(trace) :
           /\ trace[j].kind = "subcommand"
           /\ Slot(trace[j]) # <<>>
           /\ j < Len(trace)
           /\ missingRequired(cmds[trace[j].cmd], vals) # <<>>

PositionalKinds == {"positional", "negative"}

\* Iteration j opens the variadic list flag n: a positional token is
\* assigned to it, or the token is its bare name.
OpensPositionally(j, n) ==
    /\ n \in DOMAIN cmds[trace[j].cmd].flags
    /\ isVariadicFlag(cmds[trace[j].cmd].flags[n])
    /\ trace[j].kind \in PositionalKinds
    /\ n \in SeqToSet(trace[j].mk)

OpensByName(j, n) ==
    /\ n \in DOMAIN cmds[trace[j].cmd].flags
    /\ isVariadicFlag(cmds[trace[j].cmd].flags[n])
    /\ trace[j].kind = "flag"
    /\ IndexOf(trace[j].tok, <<"=">>) = 0
    /\ trace[j].mk = <<n>>

Appended(j, n) == cmds[trace[j].cmd].flags[n].Value \in SeqToSet(trace[j].wr)

\* Iteration m, of a positional token, leaves flag n alone: the token goes
\* to the flag in the positional slot, or fails as one too many.
GoesElsewhere(m, n) ==
    /\ ~Appended(m, n)
    /\ n \notin SeqToSet(trace[m].mk)
    /\ IF Slot(trace[m]) = <<>> THEN trace[m].err = "Too many positional arguments"
       ELSE trace[m].mk = <<Slot(trace[m])>>

Taken(j) == SubSeq(args, trace[j].at + 1, trace[j].at + trace[j].consumed - 1)

TooMany == "Too many positional arguments"

\* The first flag of command c, in registration order, that is not FlagOnly
\* and not in the set configured.
FirstUnconfigured(c, configured) ==
    LET hits == {k \in 1..Len(c.positional) :
                    /\ ~c.flags[c.positional[k]].FlagOnly
                    /\ c.positional[k] \notin configured}
    IN  IF hits = {} THEN <<>>
        ELSE c.positional[CHOOSE k \in hits : \A h \in hits : k <= h]

\* The first flag in registration order that is the open variadic list, a
\* used variadic list in positional-only mode, or not FlagOnly and
\* unconfigured.
FirstTaker(c, e) ==
    LET hits == {k \in 1..Len(c.positional) :
                    LET n == c.positional[k]
                    IN  /\ ~c.flags[n].FlagOnly
                        /\ \/ n \notin e.pre.c.configured
                           \/ isVariadicFlag(c.flags[n]) /\ e.pre.c.lastVariadicFlag = n
                           \/ /\ isVariadicFlag(c.flags[n])
                              /\ e.kind = "positionalOnly"}
    IN  IF hits = {} THEN <<>>
        ELSE c.positional[CHOOSE k \in hits : \A h \in hits : k <= h]

\* Iteration j, of a positional token, gave the token to flag n of command
\* c and to no other; with no n, the parse failed on the token.
GivenTo(j, c, n) ==
    IF n = <<>>
    THEN trace[j].err = TooMany /\ trace[j].wr = <<>> /\ trace[j].mk = <<>>
         /\ pc = "done" /\ result = TooMany
    ELSE /\ SeqToSet(trace[j].mk) \subseteq {n}
         /\ n \notin trace[j].pre.c.configured => trace[j].mk = <<n>>
         /\ SeqToSet(trace[j].wr) \subseteq {c.flags[n].Value}
         /\ trace[j].err = NoErr => trace[j].wr # <<>>
         /\ ~c.flags[n].FlagOnly /\ n \notin SeqToSet(c.globalFlags)

PositionalEvent(j) == trace[j].kind \in PositionalKinds \cup {"positionalOnly"}

\* C5 as stated: every positional token goes to the first flag in
\* registration order that is not FlagOnly and not configured, never to a
\* FlagOnly or global flag, and fails the parse when there is none.
C5_FirstUnconfiguredTakes ==
    \A j \in 1..Len(trace) :
        PositionalEvent(j) =>
            GivenTo(j, cmds[trace[j].cmd],
                    FirstUnconfigured(cmds[trace[j].cmd], trace[j].pre.c.configured))

\* C5 (amended): a positional token goes to the first flag in registration
\* order that is the open variadic list, in positional-only mode a variadic
\* list already used, or a flag that is not FlagOnly and not configured;
\* never to a FlagOnly or global flag; with no such flag the token is one too
\* many, which fails the parse unless unknown arguments are ignored.
C5_FirstUnconfiguredOrOpenVariadic ==
    \A j \in 1..Len(trace) :
        PositionalEvent(j) =>
            LET c == cmds[trace[j].cmd]
                n == FirstTaker(c, trace[j])
            IN  IF n = <<>> /\ cfg.ignoreUnknown
                THEN trace[j].err = TooMany /\ trace[j].wr = <<>> /\ trace[j].mk = <<>>
                ELSE GivenTo(j, c, n)

\* C5 witness: a positional token skipped a flag that was set by name and
\* went to a later one, in a command that has a FlagOnly flag in front.
C5_Witness ==
    \E j \in 1..Len(trace) :
        LET c == cmds[trace[j].cmd]
        IN  /\ trace[j].kind = "positional" /\ trace[j].err = NoErr
            /\ Len(trace[j].mk) = 1
            /\ \E k \in 1..Len(c.positional) :
                   /\ \E g \in Before(j) : /\ trace[g].kind = "flag"
                                            /\ trace[g].mk = <<c.positional[k]>>
                   /\ \E h \in (k + 1)..Len(c.positional) : c.positional[h] = trace[j].mk[1]
            /\ \E n \in DOMAIN c.flags : c.flags[n].FlagOnly /\ n \notin SeqToSet(c.globalFlags)

\* The write-targets after iteration j.
PostVals(j) == IF j < Len(trace) THEN trace[j + 1].pre.vals ELSE vals

\* The short characters of a "-" token and its "=value" part.
ShortsOf(tok) ==
    LET body == SubSeq(tok, 2, Len(tok))
        idx  == IndexOf(body, <<"=">>)
    IN  IF idx = 0 THEN body ELSE SubSeq(body, 1, idx - 1)

HasEq(tok) == IndexOf(tok, <<"=">>) # 0

EqValue(tok) == SubSeq(tok, IndexOf(tok, <<"=">>) + 1, Len(tok))

\* The flag of command c behind the short character ch.
ShortFlag(c, ch) == c.flags[c.shortToName[<<ch>>]]

\* Iteration j scanned a cluster: a "-" token of two or more registered
\* shorts, at least one of them a Bool, in a command without digit shorts.
ClusterEvent(j) ==
    LET c == cmds[trace[j].cmd]
        t == trace[j].tok
    IN  /\ trace[j].kind \in {"flag", "flagError", "ignored", "unknownVariadic"}
        /\ HasPrefix(t, <<"-">>) /\ ~HasPrefix(t, <<"-", "-">>)
        /\ Len(ShortsOf(t)) >= 2
        /\ ~hasNumberShorts(c)
        /\ \A k \in 1..Len(ShortsOf(t)) :
               /\ <<ShortsOf(t)[k]>> \in DOMAIN c.shortToName
               /\ c.shortToName[<<ShortsOf(t)[k]>>] \in DOMAIN c.flags
        /\ \E k \in 1..Len(ShortsOf(t)) : ShortFlag(c, ShortsOf(t)[k]).kind = "Bool"

\* The cluster of iteration j has a flag that is not Bool in front of its
\* last position.
NonBoolInside(j) ==
    \E k \in 1..(Len(ShortsOf(trace[j].tok)) - 1) :
        ShortFlag(cmds[trace[j].cmd], ShortsOf(trace[j].tok)[k]).kind # "Bool"

LastFlag(j) ==
    ShortFlag(cmds[trace[j].cmd], ShortsOf(trace[j].tok)[Len(ShortsOf(trace[j].tok))])

\* The value that flag f holds once the string v is bound to it, given the
\* value old it held (a list flag without Default or Separator appends).
Bound(f, v, old) ==
    CASE f.kind = "String"              -> [ok |-> TRUE, val |-> v]
      [] f.kind \in {"Int", "Int64"}    -> ParseInt(v)
      [] f.kind = "Float64"             -> ParseFloat(v)
      [] f.kind = "StringSlice"         -> [ok |-> TRUE, val |-> Append(old, v)]

\* Iteration j bound the token v, taking n tokens, to the flag f, or failed
\* because v is no value of f's kind.
TookValue(j, f, v, n) ==
    LET b == Bound(f, v, trace[j].pre.vals[f.Value])
    IN  IF b.ok THEN /\ trace[j].err = NoErr /\ trace[j].consumed = n
                     /\ PostVals(j)[f.Value] = b.val
        ELSE trace[j].err # NoErr /\ result = trace[j].err

MustBeLast == "non-bool flag must be last in cluster"

\* C6 as stated: in a cluster whose last flag is value-typed and whose other
\* flags are Bool, the last flag takes the next token as its value (the
\* parse fails when there is none); a cluster with a flag that is not Bool
\* in front of its last position fails the parse.
C6_ClusterLastConsumesNext ==
    \A j \in 1..Len(trace) :
        ClusterEvent(j) /\ ~HasEq(trace[j].tok) =>
            IF NonBoolInside(j) THEN trace[j].err # NoErr /\ result = trace[j].err
            ELSE LastFlag(j).kind # "Bool" =>
                    IF trace[j].at < Len(args)
                    THEN TookValue(j, LastFlag(j), args[trace[j].at + 1], 2)
                    ELSE trace[j].err # NoErr /\ result = trace[j].err

\* C6 (amended): the last flag of such a cluster takes the next token when
\* there is one, except that an Int or Int64 flag passes over a token that
\* starts with "-"; without a token to take, a String or Float64 flag fails
\* the parse with "requires a value", an Int or Int64 flag is set to 1, and a
\* list flag that is not variadic is left as it was.  A flag that is not Bool
\* in front of the last position fails the parse with "must be last in
\* cluster".
C6_ClusterLastByKind ==
    \A j \in 1..Len(trace) :
        ClusterEvent(j) /\ ~HasEq(trace[j].tok) /\ cfg = NoOpts =>
            LET f    == LastFlag(j)
                more == trace[j].at < Len(args)
                nxt  == args[trace[j].at + 1]
                ptr  == f.Value
            IN  IF NonBoolInside(j) THEN trace[j].err = MustBeLast /\ result = MustBeLast
                ELSE CASE f.kind = "Bool" -> trace[j].err = NoErr /\ trace[j].consumed = 1
                       [] f.kind \in {"String", "Float64"} ->
                            IF more THEN TookValue(j, f, nxt, 2)
                            ELSE trace[j].err = "flag requires a value"
                                 /\ result = trace[j].err
                       [] f.kind \in {"Int", "Int64"} ->
                            IF more /\ ~HasPrefix(nxt, <<"-">>) THEN TookValue(j, f, nxt, 2)
                            ELSE /\ trace[j].err = NoErr /\ trace[j].consumed = 1
                                 /\ PostVals(j)[ptr] = 1
                       [] f.kind = "StringSlice" /\ ~f.Variadic ->
                            IF more THEN TookValue(j, f, nxt, 2)
                            ELSE /\ trace[j].err = NoErr /\ trace[j].consumed = 1
                                 /\ PostVals(j)[ptr] = trace[j].pre.vals[ptr]
                       [] OTHER -> TRUE

\* C6 witness: a cluster of two Bools and a String took the next token as
\* the String's value, and the parse went on.
C6_Witness ==
    \E j \in 1..Len(trace) :
        /\ ClusterEvent(j) /\ ~HasEq(trace[j].tok) /\ ~NonBoolInside(j)
        /\ LastFlag(j).kind = "String"
        /\ trace[j].consumed = 2 /\ trace[j].err = NoErr
        /\ PostVals(j)[LastFlag(j).Value] = args[trace[j].at + 1]
        /\ \A k \in 1..2 : PostVals(j)[ShortFlag(cmds[trace[j].cmd], ShortsOf(trace[j].tok)[k]).Value] = TRUE

\* Iteration j scanned a lone short or a cluster of registered shorts with
\* an "=value" suffix, every flag in front of the last one a Bool.
ShortEqEvent(j) ==
    LET c == cmds[trace[j].cmd]
        t == trace[j].tok
    IN  /\ trace[j].kind \in {"flag", "flagError", "ignored", "unknownVariadic"}
        /\ HasPrefix(t, <<"-">>) /\ ~HasPrefix(t, <<"-", "-">>)
        /\ HasEq(t) /\ Len(ShortsOf(t)) >= 1
        /\ ~hasNumberShorts(c)
        /\ \A k \in 1..Len(ShortsOf(t)) :
               /\ <<ShortsOf(t)[k]>> \in DOMAIN c.shortToName
               /\ c.shortToName[<<ShortsOf(t)[k]>>] \in DOMAIN c.flags
        /\ ~NonBoolInside(j)

\* C7: the "=value" of a lone short or of a cluster is bound to the last
\* flag of the token, whatever its kind: a Bool holds the parsed value, a
\* scalar the converted value, a list has it appended; a value that does not
\* convert fails the parse.
C7_EqValueBindsLastFlag ==
    \A j \in 1..Len(trace) :
        ShortEqEvent(j) =>
            LET f == LastFlag(j)
                v == EqValue(trace[j].tok)
            IN  IF f.kind = "Bool"
                THEN IF parseBoolValue(v).ok
                     THEN /\ trace[j].err = NoErr /\ trace[j].consumed = 1
                          /\ PostVals(j)[f.Value] = parseBoolValue(v).val
                     ELSE trace[j].err # NoErr
                ELSE TookValue(j, f, v, 1)

\* A "-" followed by a digit or "."; a "-" followed by a digit.
DigitToken(t) == Len(t) >= 2 /\ t[1] = "-" /\ (isDigit(t[2]) \/ t[2] = ".")
LeadingDigit(t) == Len(t) >= 2 /\ t[1] = "-" /\ isDigit(t[2])

FlagKinds == {"flag", "flagError", "ignored", "unknownVariadic"}

\* C8: in a command without a digit short, a scanned "-digit" or "-." token
\* is never taken for a flag: it goes to positional assignment; in a command
\* with a digit short, a scanned token with a leading digit is taken for a
\* short flag, and a token that names a registered digit short is not
\* absorbed as an element by a variadic list in front of it.
C8_DigitTokenByRegisteredShorts ==
    \A j \in 1..Len(trace) :
        LET c == cmds[trace[j].cmd]
            e == trace[j]
        IN  /\ DigitToken(e.tok) /\ e.kind # "positionalOnly" /\ ~hasNumberShorts(c)
                => /\ e.kind = "negative"
                   /\ SeqToSet(e.mk) \subseteq {Slot(e)}
                   /\ Slot(e) = <<>> => e.err = TooMany
            /\ LeadingDigit(e.tok) /\ e.kind # "positionalOnly" /\ hasNumberShorts(c)
                => e.kind \in FlagKinds
            /\ hasNumberShorts(c)
                => \A n \in DOMAIN c.flags : OpensByName(j, n) =>
                       \A k \in 1..Len(Taken(j)) :
                           ~(/\ LeadingDigit(Taken(j)[k])
                             /\ ShortsOf(Taken(j)[k]) \in DOMAIN c.shortToName)

\* The value v lies in the declared range of the numeric flag f.
InRange(f, v) ==
    IF f.kind = "Float64"
    THEN /\ f.hasMin => IF f.minInclusive THEN FloatLe(f.min, v) ELSE FloatLt(f.min, v)
         /\ f.hasMax => IF f.maxInclusive THEN FloatLe(v, f.max) ELSE FloatLt(v, f.max)
    ELSE /\ f.hasMin => IF f.minInclusive THEN f.min <= v ELSE f.min < v
         /\ f.hasMax => IF f.maxInclusive THEN v <= f.max ELSE v < f.max

NumericKinds == {"Int", "Int64", "Float64"}

\* C9: whatever syntax binds it, a value stored to an Int, Int64 or Float64
\* flag lies in the flag's declared range, and a value outside it fails the
\* parse at once; so a parse that succeeds leaves every such flag that the
\* user bound inside its range.
C9_NumericBindInRange ==
    /\ \A j \in 1..Len(trace) : \A n \in DOMAIN cmds[trace[j].cmd].flags :
           LET f == cmds[trace[j].cmd].flags[n]
           IN  f.kind \in NumericKinds /\ f.Value \in SeqToSet(trace[j].wr)
                   => InRange(f, PostVals(j)[f.Value])
    /\ pc = "done" /\ result = NoErr
           => \A n \in cmds[cur].configured \cap DOMAIN cmds[cur].flags :
                  cmds[cur].flags[n].kind \in NumericKinds
                      => InRange(cmds[cur].flags[n], vals[cmds[cur].flags[n].Value])

\* The elements that iteration j supplied to the list flag n.
Supplied(j, n) ==
    LET e == trace[j]
    IN  IF e.err # NoErr THEN <<>>
        ELSE IF e.kind \in PositionalKinds \cup {"positionalOnly"} /\ Appended(j, n)
        THEN <<e.tok>>
        ELSE IF e.kind = "flag" /\ HasPrefix(e.tok, <<"-", "-">>) /\ LongName(e.tok) = n
        THEN IF IsLongEq(e.tok) THEN <<LongValue(e.tok)>> ELSE Taken(j)
        ELSE <<>>

\* The elements supplied to the list flag n by the iterations up to k.
RECURSIVE UserElements(_, _)
UserElements(k, n) ==
    IF k = 0 THEN <<>> ELSE UserElements(k - 1, n) \o Supplied(k, n)

\* C10: after a successful parse in which the user supplied elements to a
\* list flag that has a Default, the flag holds exactly those elements in
\* order: no Default element leaks in and no supplied element is lost.
C10_DefaultReplacedWholesale ==
    pc = "done" /\ result = NoErr =>
        \A n \in DOMAIN cmds[cur].flags :
            LET f == cmds[cur].flags[n]
            IN  /\ isSliceKind(f.kind) /\ f.hasDefault /\ ~f.hasSeparator
                /\ UserElements(Len(trace), n) # <<>>
                => vals[f.Value] = UserElements(Len(trace), n)

\* The root Command of the program that runs.
Root == Programs[prog].root

\* The flags of command c that have a Default.
WithDefault(c) == {name \in DOMAIN cmds[c].flags : cmds[c].flags[name].hasDefault}

\* A Parse call of the empty command line has returned.
ParsedEmpty == pc = "done" /\ args = <<>>

\* C11: after a Parse of the empty token sequence, every flag of the Command
\* that has a Default holds the Default and Configured reports false for it,
\* on a fresh Command and on one that was parsed before.
C11_EmptyParseYieldsDefault ==
    ParsedEmpty =>
        \A name \in WithDefault(Root) :
            /\ vals[cmds[Root].flags[name].Value] = cmds[Root].flags[name].Default
            /\ ~Configured(cmds, Root, name)

\* The errors of the relational checks.
Relational == {"requires", "excludes"}

\* The call has returned from the code behind the loop: every token was
\* scanned without an error that ends the parse, and help was not asked for.
AtEnd ==
    /\ pc = "done" /\ i > Len(rest)
    /\ result \notin {"help invoked", "dump invoked", "Undefined flag"}

\* Flag name of command c counts as configured for the relational checks.
Counts(c, name) == flagConfiguredForRelationalConstraints(cmds[c], vals, name)

\* The pairs <<A, B>> of command c with B in Requires of A, A counting and
\* B not.
UnmetPairs(c) ==
    {<<A, B>> \in (DOMAIN cmds[c].flags) \X (DOMAIN cmds[c].flags) :
        /\ B \in SeqToSet(cmds[c].flags[A].Requires)
        /\ Counts(c, A) /\ ~Counts(c, B)}

\* The commands that this Parse call has entered: the root and the
\* subcommands it dispatched to.
Entered ==
    {Root} \cup {trace[j].tok : j \in {k \in 1..Len(trace) : trace[k].kind = "subcommand"}}

\* C12 as stated: whenever a flag of a command that the parse went through
\* counts and a flag it requires does not, the parse returns a relational
\* error.
C12_RequiresEnforced ==
    AtEnd => \A c \in Entered : UnmetPairs(c) # {} => result \in Relational

\* C12: in the command in which the parse ends, a flag that counts while a
\* flag it requires does not makes the parse return a relational error, and
\* a "requires" error always names such a pair: none is returned when both
\* count, nor for a Bool that is false.
C12_RequiresInFinalCommand ==
    AtEnd =>
        /\ UnmetPairs(cur) # {} => result \in Relational
        /\ result = "requires" => reported \in UnmetPairs(cur)

C12_Witness ==
    /\ AtEnd /\ result = "requires"
    /\ cmds[cur].flags[reported[1]].kind = "Bool"
    /\ reported = << <<"a">>, <<"b">> >>

\* The pairs <<A, B>> of command c with B in Excludes of A and both
\* counting.
Clash(c) ==
    {<<A, B>> \in (DOMAIN cmds[c].flags) \X (DOMAIN cmds[c].flags) :
        /\ B \in SeqToSet(cmds[c].flags[A].Excludes)
        /\ Counts(c, A) /\ Counts(c, B)}

\* C13 as stated: whenever two flags of a command that the parse went
\* through both count and one of them excludes the other, the parse fails.
C13_ExcludesEnforced ==
    AtEnd =>
        /\ \A c \in Entered : Clash(c) # {} => result # NoErr
        /\ result = "excludes" => \E c \in Entered : reported \in Clash(c)

\* C13: in the command in which the parse ends, two flags that both count,
\* one of which excludes the other, make the parse fail with a relational
\* error, whichever declares the exclusion, was registered first or came
\* first on the command line; an "excludes" error always names such a pair,
\* so none is returned when at most one of the two counts.
C13_ExcludesSymmetric ==
    AtEnd =>
        /\ Clash(cur) # {} => result \in Relational
        /\ result = "excludes" => reported \in Clash(cur)

\* The excluded flag was registered, and supplied, before the flag that
\* declares the exclusion.
C13_Witness ==
    /\ AtEnd /\ result = "excludes"
    /\ reported = << <<"d">>, <<"c">> >>
    /\ args = << <<"-", "-", "c", "=", "x">>, <<"-", "-", "d", "=", "x">> >>

\* A flag with BypassValidation is configured in command c.
Bypassed(c) ==
    \E n \in cmds[c].configured :
        n \in DOMAIN cmds[c].flags /\ cmds[c].flags[n].BypassValidation

\* The required flags of command c that were not supplied and that no
\* counting flag lists in its Excludes, in registration order.
NotMoot(c) ==
    SelectSeq(getAllFlagsInRegistrationOrder(cmds[c]),
        LAMBDA B :
            /\ isFlagRequired(cmds[c], B)
            /\ B \notin cmds[c].configured
            /\ ~\E A \in DOMAIN cmds[c].flags \ {B} :
                   Counts(c, A) /\ B \in SeqToSet(cmds[c].flags[A].Excludes))

\* C14: when the relational checks pass and no bypass flag is configured,
\* the flags reported missing are exactly the required flags that were not
\* supplied and that no flag counting as configured for relational purposes
\* excludes.
C14_ExemptWhenExcluded ==
    (AtEnd /\ result \notin Relational /\ ~Bypassed(cur)) =>
        IF NotMoot(cur) = <<>> THEN result = NoErr
        ELSE result = "Missing required arguments" /\ reported = NotMoot(cur)

\* C15: when a flag carrying BypassValidation is configured in the command
\* in which the parse ends, the parse returns neither a relational nor a
\* missing-required error.
C15_BypassSkipsValidation ==
    (AtEnd /\ Bypassed(cur)) =>
        result \notin Relational \cup {"Missing required arguments"}

\* The errors raised while a token is scanned.
InputError(err) ==
    err \notin {NoErr, "help invoked", "dump invoked", "Undefined flag",
                "Missing required arguments"} \cup Relational

\* The flags of command c in the order of the end-of-parse pass: the
\* positional flags, then the non-positional ones, each in registration
\* order.
PassOrder(c) == cmds[c].positional \o cmds[c].nonPositional

\* Flag n of command c is in violation: it counts and requires a flag that
\* does not, or it is one of two counting flags that exclude each other.
InViolation(c, n) ==
    \/ \E pair \in UnmetPairs(c) : pair[1] = n
    \/ \E pair \in Clash(c) : n \in {pair[1], pair[2]}

Violating(c) == SelectSeq(PassOrder(c), LAMBDA n : InViolation(c, n))

\* The error of the parse was raised by the last token scanned, and the
\* tokens in front of that one parse without an input error.
FirstInTokenOrder ==
    /\ trace # <<>>
    /\ trace[Len(trace)].err = result
    /\ \A j \in 1..(Len(trace) - 1) :
           trace[j].err # NoErr => trace[j].kind \in {"ignored", "unknownVariadic", "positional"}
                                   /\ (cfg.ignoreUnknown \/ cfg.variadicUnknownFlags)
    /\ ~InputError(Parsed(prog, SubSeq(args, 1, trace[Len(trace)].at - 1)).result)

\* C16: an input error is the error of the first token, in token order, that
\* raises one; a relational or missing-required error is returned only
\* after every token was scanned; at the end of the parse a relational
\* violation is reported whenever there is one, "missing required" only
\* when there is none, and the violation reported is that of the first
\* violating flag in the order positional flags, then non-positional flags.
C16_ErrorOrder ==
    pc = "done" =>
        /\ InputError(result) => FirstInTokenOrder
        /\ result \in Relational \cup {"Missing required arguments"} => i > Len(rest)
        /\ AtEnd =>
              IF Violating(cur) = <<>> THEN result \notin Relational
              ELSE /\ result \in Relational
                   /\ Head(Violating(cur)) \in {reported[1], reported[2]}
                   /\ result = "requires" => reported[1] = Head(Violating(cur))

\* A FlagOnly Bool registered first and a positional flag registered after
\* it are both in violation and a required flag is missing: the positional flag is
\* the one reported.
C16_Witness ==
    /\ AtEnd /\ result = "requires"
    /\ Len(Violating(cur)) = 2
    /\ missingRequired(cmds[cur], vals) # <<>>
    /\ reported[1] \in SeqToSet(cmds[cur].positional)
    /\ Violating(cur)[2] \in SeqToSet(cmds[cur].nonPositional)
    /\ Violating(cur)[2] = Head(cmds[cur].nonPositional)

\* The command line holds a --help or -h token.
HelpAsked == \E k \in 1..Len(args) : args[k] \in {LongHelp, ShortHelp}

\* C17: with automatic help enabled, a parse whose scan raises no input
\* error and whose command line holds --help or -h, at any position, returns
\* the help sentinel.
C17_HelpAnywhere ==
    (/\ pc = "done" /\ \A c \in Entered : cmds[c].helpEnabled
     /\ ~InputError(result) /\ result \notin {"dump invoked", "Undefined flag"}
     /\ HelpAsked)
    => result = "help invoked"

\* The tokens of the loop iterations of command c that raised an error, in
\* token order.
Swallowed(c) ==
    LET failed == SelectSeq(trace, LAMBDA e : e.cmd = c /\ e.err # NoErr)
    IN  [j \in 1..Len(failed) |-> failed[j].tok]

\* The loop iterations cover the command line: each starts at the token
\* behind those the one before it consumed, and the last one ends at the
\* last token.
Tiled ==
    /\ trace # <<>> => trace[1].at = 1
    /\ \A j \in 1..(Len(trace) - 1) : trace[j + 1].at = trace[j].at + trace[j].consumed
    /\ Len(args) = IF trace = <<>> THEN 0
                   ELSE trace[Len(trace)].at + trace[Len(trace)].consumed - 1

\* The write-targets as loop iteration j left them.
After(j) == IF j < Len(trace) THEN trace[j + 1].pre.vals ELSE vals

\* What loop iteration j bound is still bound at the end: the flags it
\* marked are configured, and a write-target it stored to holds its value
\* unless a later iteration stored to it.
StillBound(j) ==
    /\ \A n \in SeqToSet(trace[j].mk) : n \in cmds[trace[j].cmd].configured
    /\ \A t \in SeqToSet(trace[j].wr) :
           (\A k \in (j + 1)..Len(trace) : t \notin SeqToSet(trace[k].wr))
               => vals[t] = After(j)[t]

\* C18: with ignoreUnknown the scan never ends in an input error: every
\* token is scanned, the tokens that raised an error are the unknown list of
\* their command, in token order, and what the other tokens bound, before
\* and after them, is still bound at the end.
C18_IgnoreUnknownCollects ==
    (pc = "done" /\ cfg.ignoreUnknown /\ result \notin {"dump invoked", "Undefined flag"}) =>
        /\ ~InputError(result)
        /\ Tiled
        /\ \A c \in Entered : cmds[c].unknownArgs = Swallowed(c)
        /\ \A j \in 1..Len(trace) : trace[j].err = NoErr => StillBound(j)

\* A positional token that no flag can take, between a positional token
\* that was bound and a flag that is bound after it.
C18_Witness ==
    /\ pc = "done" /\ cfg.ignoreUnknown /\ result = NoErr
    /\ Len(trace) = 3
    /\ trace[1].err = NoErr /\ trace[1].wr # <<>>
    /\ trace[2].err = "Too many positional arguments"
    /\ trace[3].err = NoErr /\ trace[3].wr # <<>>
    /\ cmds[cur].unknownArgs = <<trace[2].tok>>
    /\ vals[trace[3].wr[1]] = 5

\* The parse state of command c: its configured set, its unknown list and
\* its variadic tracking.
ParseState(c) ==
    [ configured |-> c.configured, unknownArgs |-> c.unknownArgs,
      lastVariadicFlag |-> c.lastVariadicFlag, sawFlag |-> c.sawFlag ]

\* C19: at the end of a Parse call, the parse state of the root and of every
\* subcommand the call entered is the one that the same command line leaves
\* on a tree that was never parsed before.
C19_FreshParseState ==
    pc = "done" =>
        \A c \in Entered :
            ParseState(cmds[c]) = ParseState(Parsed(prog, args).cmds[c])

\* The loop iterations that dispatched to a subcommand.
Dispatches == {s \in 1..Len(trace) : trace[s].kind = "subcommand"}

\* The configured set of the subcommand as the dispatch of iteration s
\* handed it over, before the subcommand scanned a token.
ConfiguredAtEntry(s) ==
    IF s < Len(trace) THEN trace[s + 1].pre.c.configured
    ELSE cmds[trace[s].tok].configured

\* In front of the subcommand token of iteration s, the parent stored a
\* value to write-target t.
SuppliedBefore(s, t) ==
    \E j \in 1..(s - 1) : trace[j].cmd = trace[s].cmd /\ t \in SeqToSet(trace[j].wr)

\* C20: on the dispatch to a subcommand, a global flag that the child
\* inherits is configured in the child exactly when the parent stored a
\* value to that flag's own write-target in front of the subcommand token.
C20_GlobalConfiguredCarried ==
    pc = "done" =>
        \A s \in Dispatches :
            \A g \in SeqToSet(trace[s].pre.c.globalFlags) \cap DOMAIN cmds[trace[s].tok].flags :
                g \in ConfiguredAtEntry(s)
                    <=> SuppliedBefore(s, cmds[trace[s].tok].flags[g].Value)

----------------------------------------------------------------------------
(* Global flags across the tree *)

\* The Register calls on the root that returned no error, and those of them
\* that registered a global flag.
Accepted == {k \in 1..Len(calls) : calls[k].err = NoErr}
AcceptedGlobal == {k \in Accepted : calls[k].global}

\* Token tok names the flag of Register call k, by --name=value or by
\* -short=value.
Names(tok, k) ==
    \/ IsLongEq(tok) /\ LongName(tok) = calls[k].f.Name
    \/ /\ ~HasPrefix(tok, <<"-", "-">>) /\ HasPrefix(tok, <<"-">>)
       /\ calls[k].f.Short # <<>> /\ ShortsOf(tok) = calls[k].f.Short

\* The loop iterations that ran in the subcommand.
InSub == {j \in 1..Len(trace) : trace[j].cmd = Sub}

\* C21: a global flag registered on the root, before or after the subcommand
\* was attached, and supplied after the subcommand name is bound without
\* error through the write-target that the root's Register call returned,
\* and the root reports it configured afterwards.
C21_GlobalSharedByReference ==
    pc = "done" =>
        \A k \in AcceptedGlobal : \A j \in InSub :
            Names(trace[j].tok, k) =>
                /\ trace[j].err = NoErr
                /\ calls[k].ptr \in SeqToSet(trace[j].wr)
                /\ Configured(cmds, App, calls[k].f.Name)

----------------------------------------------------------------------------
(* Registration errors *)

\* Register calls j and k name the same flag name or the same short
\* character.
Collides(j, k) ==
    \/ calls[j].f.Name = calls[k].f.Name
    \/ calls[k].f.Short # <<>> /\ calls[j].f.Short = calls[k].f.Short

\* The calls accepted before call k that call k collides with.
Held(k) == {j \in Accepted : j < k /\ Collides(j, k)}

\* The flag of call k is refused whatever the Command holds.
IllFormed(k) ==
    \/ calls[k].f.Name = <<>>
    \/ calls[k].f.PositionalOnly /\ calls[k].f.FlagOnly
    \/ /\ calls[k].f.hasDefault /\ calls[k].f.hasMin
       /\ calls[k].f.Default < calls[k].f.min

\* C22: Register returns an error for an empty name, for PositionalOnly with
\* FlagOnly, for a Default outside the flag's own constraint, and for every
\* name or short that a flag accepted before on the same Command holds,
\* unless the new flag is non-global and every flag it collides with is
\* global.
C22_RegisterRejects ==
    \A k \in 1..Len(calls) :
        /\ IllFormed(k) => calls[k].err # NoErr
        /\ (Held(k) # {} /\ (calls[k].global \/ \E j \in Held(k) : ~calls[j].global))
               => calls[k].err # NoErr

----------------------------------------------------------------------------
(* Shadowing of a global flag *)

\* The flag that short character s resolves to in command c, as
\* parseShortFlag looks it up: c.flags[c.shortToName[s]].
ByShort(c, s) == c.flags[c.shortToName[s]]

\* Short character s resolves to the write-target ptr in command c.
ShortReaches(c, s, ptr) ==
    /\ s \in DOMAIN c.shortToName
    /\ c.shortToName[s] \in DOMAIN c.flags
    /\ ByShort(c, s).Value = ptr

\* A subcommand attached to command c receives the flag of Register call j
\* under its name and its short.
Propagated(c, j) ==
    LET Received(s) ==
            /\ calls[j].f.Name \in DOMAIN s.flags
            /\ s.flags[calls[j].f.Name].Value = calls[j].ptr
            /\ calls[j].f.Short # <<>> => ShortReaches(s, calls[j].f.Short, calls[j].ptr)
    IN  Received(applyGlobalFlags(c, NewCmd(Sub)))

\* Call k registered a non-global flag under the name that the global flag
\* of call j held in the Command.
NameShadows(k, j) ==
    /\ k \in Accepted /\ ~calls[k].global
    /\ j \in AcceptedGlobal /\ j < k
    /\ calls[j].f.Name = calls[k].f.Name
    /\ calls[k].before.flags[calls[j].f.Name].Value = calls[j].ptr

\* C23: after a non-global flag took the name of a global flag, the name
\* resolves to the new flag in the parent; the global is kept in the side
\* table and in the global-flag list and a subcommand receives it under its
\* name and short; its short resolves to the new flag if the new flag uses
\* it, and otherwise still to the global, if the global held it before.
C23_NameShadowKeepsGlobal ==
    \A k \in 1..Len(calls), j \in 1..Len(calls) :
        NameShadows(k, j) =>
            LET n == calls[j].f.Name
                s == calls[j].f.Short
                c == calls[k].after
            IN  /\ c.flags[n].Value = calls[k].ptr
                /\ n \in DOMAIN c.overriddenGlobalFlags
                /\ c.overriddenGlobalFlags[n].Value = calls[j].ptr
                /\ isGlobalName(c, n)
                /\ Propagated(c, j)
                /\ (s # <<>> /\ calls[k].f.Short = s) => ShortReaches(c, s, calls[k].ptr)
                /\ (s # <<>> /\ calls[k].f.Short # s
                      /\ ShortReaches(calls[k].before, s, calls[j].ptr))
                       => ShortReaches(c, s, calls[j].ptr)

\* Call k registered a non-global flag with the short character that
\* resolved to the global flag of call j, under another name.
ShortShadows(k, j) ==
    /\ k \in Accepted /\ ~calls[k].global /\ calls[k].f.Short # <<>>
    /\ j \in AcceptedGlobal /\ j < k
    /\ calls[j].f.Short = calls[k].f.Short
    /\ calls[j].f.Name # calls[k].f.Name
    /\ ShortReaches(calls[k].before, calls[j].f.Short, calls[j].ptr)

\* --name=5 for the flag of call j, and -s=7 for its short.
LongToken(j) == <<"-", "-">> \o calls[j].f.Name \o <<"=", "5">>
ShortToken(j) == <<"-">> \o calls[j].f.Short \o <<"=", "7">>

\* The parse of args_ by root Command c succeeds and leaves value v in
\* write-target ptr.
Binds(c, args_, ptr, v) ==
    LET Left(S) == S.result = NoErr /\ S.vals[ptr] = v
    IN  Left(ParsedBy(c, args_))

\* C24: after a non-global flag took the short of a global flag of another
\* name, the short resolves to the new flag in the parent, the global is
\* still bound through its write-target by its full name, the Command
\* records the short-shadow and keeps the global in its global-flag list,
\* and a subcommand receives the global with its short.
C24_ShortShadowKeepsGlobal ==
    \A k \in 1..Len(calls), j \in 1..Len(calls) :
        ShortShadows(k, j) =>
            LET n == calls[j].f.Name
                s == calls[j].f.Short
                c == calls[k].after
            IN  /\ ShortReaches(c, s, calls[k].ptr)
                /\ Binds(c, <<ShortToken(j)>>, calls[k].ptr, 7)
                /\ n \in DOMAIN c.flags /\ c.flags[n].Name = n
                /\ c.flags[n].Value = calls[j].ptr
                /\ Binds(c, <<LongToken(j)>>, calls[j].ptr, 5)
                /\ n \in c.shadowedShortFlags
                /\ isGlobalName(c, n)
                /\ Propagated(c, j)
                /\ Binds(c, <<Sub, ShortToken(j)>>, calls[j].ptr, 7)

----------------------------------------------------------------------------
\* The positions in effects of the PostParse hook calls, of the writes (the
\* custom usage function writes the usage itself) and of the osExit calls.
HookCalls == {k \in 1..Len(effects) : effects[k].op = "PostParse"}
Writes == {k \in 1..Len(effects) : effects[k].op \in {"write", "customUsage"}}
ExitCalls == {k \in 1..Len(effects) : effects[k].op = "osExit"}

----------------------------------------------------------------------------
\* Every flag of every Command holds its Default, or the zero value of its
\* kind when it has none.
AllAtDefault ==
    \A n \in DOMAIN cmds : \A k \in DOMAIN cmds[n].flags :
        LET f == cmds[n].flags[k]
        IN  vals[f.Value] = (IF f.hasDefault THEN f.Default ELSE ZeroValue(f.kind))

\* No Command of the tree holds a record of a parse.
AllCleared ==
    \A n \in DOMAIN cmds :
        /\ cmds[n].configured = {} /\ ~cmds[n].used /\ cmds[n].unknownArgs = <<>>
        /\ cmds[n].lastVariadicFlag = <<>> /\ ~cmds[n].sawFlag

\* The Parse after the reset ends as the same Parse on the program as it was
\* built: the same error and the same values.
AsOnFreshTree ==
    LET Same(F) == result = F.result /\ vals = F.vals
    IN  Same(Parsed(prog, args))

\* C26: after ResetParseState every flag value is its Default (the zero value
\* without one) and the configured, used and unknown-args records of every
\* Command are cleared, and the Parse that follows returns the error and
\* leaves the values of the same Parse on a newly built tree.
C26_ResetIsCleanSlate ==
    /\ pc = "reset" => AllAtDefault /\ AllCleared
    /\ (pc = "done" /\ earlier # <<>>) => AsOnFreshTree

----------------------------------------------------------------------------
\* C27: a program and a command line determine the return of Parse: the
\* error, the flag names its message names, the values and the configured
\* set of every Command are those of any other run of the same program on
\* the same command line.
C27_Deterministic ==
    LET Same(F) ==
            /\ result = F.result /\ reported = F.reported /\ vals = F.vals
            /\ \A n \in DOMAIN cmds : cmds[n].configured = F.cmds[n].configured
    IN  pc = "done" => Same(Run(ParseOrError(StartOf(OrderPrograms[prog]), args)))

----------------------------------------------------------------------------
\* The parse of the program as it was built, on the same command line.
Uncompleted == Run(ParseOrError(StartOf(CompletePrograms[prog]), args))

\* The latest computeCompletions call left every Command and every
\* write-target as it found them.
LeftUntouched == cmds = completed.before.cmds /\ vals = completed.before.vals

\* The Parse made after the completion calls returns what it returns
\* without them: the error, the values of the program's flags and the
\* post-parse records of every Command.
ParsesAsWithout ==
    LET Same(F) ==
            /\ result = F.result /\ reported = F.reported
            /\ \A p \in DOMAIN CompletePrograms[prog].vals : vals[p] = F.vals[p]
            /\ \A n \in DOMAIN cmds :
                  /\ cmds[n].configured = F.cmds[n].configured
                  /\ cmds[n].used = F.cmds[n].used
                  /\ cmds[n].unknownArgs = F.cmds[n].unknownArgs
    IN  Same(Uncompleted)

\* C28: computeCompletions changes no flag value, no post-parse record and
\* no registration table of any Command of the tree, and a Parse made after
\* the completion calls behaves as it does without them.
C28_CompletionReadOnly ==
    /\ (pc = "ready" /\ completed.n > 0) => LeftUntouched
    /\ pc = "done" => ParsesAsWithout

----------------------------------------------------------------------------
\* The parse of the completed command line by the Command tree as the
\* computeCompletions call found it.
ParsedPartial ==
    Run(ParseOrError([StartOf(CompletePrograms[prog]) EXCEPT
                          !.cmds = completed.before.cmds,
                          !.vals = completed.before.vals], completed.args))

\* The loop iterations of trace t that take the n-th token: as the token of
\* the iteration or as one of the values it consumes.
Reaching(t, n) ==
    {j \in 1..Len(t) : t[j].at = n \/ (t[j].at < n /\ n < t[j].at + t[j].consumed)}

\* C29: when the parser reaches the word being completed, the Command whose
\* loop takes that word is the active command computeCompletions resolved.
C29_SameActiveCommand ==
    LET Agrees(F) ==
            \A j \in Reaching(F.trace, Len(completed.args)) :
                F.trace[j].cmd = completed.activeCmd
    IN  (completed.n > 0 /\ completed.args # <<>>) => Agrees(ParsedPartial)

----------------------------------------------------------------------------
\* The loop iterations of trace t that assign the n-th token to a positional
\* flag.
Assigning(t, n) ==
    {j \in 1..Len(t) : /\ t[j].at = n /\ t[j].kind \in {"positional", "positionalOnly"}
                       /\ t[j].err = NoErr /\ t[j].wr # <<>>}

\* C30: when the parser assigns the word being completed to a positional
\* flag, computeCompletions offers the values of that flag: the flag its
\* positional count selects on the active command is the one the parser
\* writes, both in front of and behind `--`.
C30_SameActivePositional ==
    LET Offered(c) ==
            /\ completed.offer.kind = "positional"
            /\ completed.offer.flag \in DOMAIN c.flags
        Agrees(F, c) ==
            \A j \in Assigning(F.trace, Len(completed.args)) :
                /\ Offered(c)
                /\ c.flags[completed.offer.flag].Value \in SeqToSet(F.trace[j].wr)
    IN  (completed.n > 0 /\ completed.args # <<>>) =>
            Agrees(ParsedPartial, completed.before.cmds[completed.activeCmd])

----------------------------------------------------------------------------
\* The names that the flag tokens in front of the n-th token of trace t
\* marked configured: the flags the parser found supplied by name, whether
\* as --name, --name=value, a lone short or a character of a cluster.
UsedBefore(t, n) ==
    UNION {SeqToSet(t[j].mk) :
             j \in {j2 \in 1..Len(t) : /\ t[j2].at < n /\ t[j2].kind = "flag"
                                       /\ t[j2].err = NoErr}}

\* The parser scanned a `--` separator in front of the n-th token.
SeparatedBefore(t, n) ==
    \E j \in 1..Len(t) : t[j].at < n /\ t[j].kind = "dashdash"

\* The long names to offer on Command c for the word toComplete when the
\* flags named in used were supplied earlier on the line.
NamesToOffer(c, used, toComplete) ==
    {DashDash \o name :
        name \in {n \in DOMAIN c.flags :
                    /\ ~c.flags[n].Hidden
                    /\ ~c.flags[n].PositionalOnly
                    /\ (isSliceKind(c.flags[n].kind) \/ n \notin used)
                    /\ HasPrefix(DashDash \o n, toComplete)}}

\* C31: when the parser reaches the word being completed, a flag-name
\* completion offers exactly the long names of the active command's flags
\* that are not hidden, not positional-only and were not supplied earlier
\* on the line, list flags excepted; and behind a `--` that the parser
\* scanned neither flag names nor subcommand names are offered.
C31_FlagNamesOffered ==
    LET n == Len(completed.args)
        Long(cands) == {w \in cands : HasPrefix(w, DashDash)}
        Agrees(F) ==
            Reaching(F.trace, n) # {} =>
              /\ completed.reply.source = "names" =>
                    Long(completed.reply.candidates)
                      = NamesToOffer(cmds[completed.activeCmd], UsedBefore(F.trace, n),
                                     completed.args[n])
              /\ SeparatedBefore(F.trace, n) =>
                    /\ completed.reply.source # "names"
                    /\ ~completed.offer.includeSubcmds
    IN  (completed.n > 0 /\ completed.args # <<>>) => Agrees(ParsedPartial)

----------------------------------------------------------------------------
\* The latest computeCompletions call completed a value of flag f of the
\* active command: one named on the line, or the active positional.
CompletesValue(c) ==
    /\ completed.offer.kind \in {"value", "positional"}
    /\ completed.offer.flag \in DOMAIN c.flags

\* The word being completed.
ToComplete ==
    IF completed.args = <<>> THEN <<>> ELSE completed.args[Len(completed.args)]

\* The source the priority order selects for flag f.
SourceOf(f) ==
    IF f.hasCompletionFunc THEN "func"
    ELSE IF f.kind = "String" /\ f.hasEnum THEN "enum"
    ELSE "file"

\* The subcommand names offered along with a positional's candidates.
SubcommandsOffered(c) ==
    IF completed.offer.kind = "positional" /\ completed.offer.includeSubcmds
    THEN {n \in c.subCmds : HasPrefix(n, ToComplete)}
    ELSE {}

\* C32 as stated: the source of a completed value is the flag's completion
\* function if one is set, otherwise its enum constraint, otherwise the
\* file-completion fallback directive, and that fallback is given for
\* positionals only.
C32_FallbackForPositionalsOnly ==
    LET Stated(c, f) ==
            /\ completed.reply.source = SourceOf(f)
            /\ (completed.reply.source = "file"
                  /\ completed.reply.directive = CompletionDirectiveDefault)
               => completed.offer.kind = "positional"
    IN  completed.n > 0 =>
          \A c \in {cmds[completed.activeCmd]} :
            CompletesValue(c) => Stated(c, c.flags[completed.offer.flag])

\* C32, amended: the source of a completed value is the flag's completion
\* function if one is set, otherwise its enum constraint, otherwise the
\* file-completion fallback, for a flag named on the line as for a
\* positional.  A function's candidates are returned as the function gives
\* them with its directive, an enum's with the no-file-completion
\* directive, and the fallback is the default directive with no candidates;
\* when subcommand names are offered along with a positional, the directive
\* is no-file-completion whatever the source.
C32_SourcePriority ==
    LET Values(f, typed) ==
            CASE SourceOf(f) = "func" -> f.CompletionFunc.candidates
              [] SourceOf(f) = "enum" ->
                    {v \in SeqToSet(f.EnumConstraint) : HasPrefix(v, typed)}
              [] OTHER -> {}
        eq == IndexOf(ToComplete, <<"=">>)
        \* the value of `--name=typed` carries the `--name=` it was typed behind
        Inline(f) ==
            {SubSeq(ToComplete, 1, eq) \o v :
                v \in Values(f, SubSeq(ToComplete, eq + 1, Len(ToComplete)))}
        Directive(f) ==
            CASE SourceOf(f) = "func" -> f.CompletionFunc.directive
              [] SourceOf(f) = "enum" -> CompletionDirectiveNoFileComp
              [] OTHER -> CompletionDirectiveDefault
        Amended(c, f) ==
            /\ completed.reply.source = SourceOf(f)
            /\ completed.offer.kind = "positional" =>
                  completed.reply.candidates
                    = SubcommandsOffered(c) \cup Values(f, ToComplete)
            /\ completed.offer.kind = "value" =>
                  \/ completed.reply.candidates = Values(f, ToComplete)
                  \/ eq # 0 /\ completed.reply.candidates = Inline(f)
            /\ completed.reply.directive =
                  IF SubcommandsOffered(c) # {}
                  THEN CompletionDirectiveNoFileComp ELSE Directive(f)
    IN  completed.n > 0 =>
          \A c \in {cmds[completed.activeCmd]} :
            CompletesValue(c) => Amended(c, c.flags[completed.offer.flag])

\* A value of a flag that has both a completion function and an enum
\* constraint was completed, and the function's candidates were returned.
C32_Witness ==
    /\ completed.n > 0
    /\ \E c \in {cmds[completed.activeCmd]} :
        /\ CompletesValue(c)
        /\ c.flags[completed.offer.flag].hasCompletionFunc
        /\ c.flags[completed.offer.flag].hasEnum
        /\ completed.reply.source = "func"
        /\ completed.reply.candidates = c.flags[completed.offer.flag].CompletionFunc.candidates

----------------------------------------------------------------------------
\* The registration tables of a Command.
Tables(c) ==
    [flags |-> c.flags, shortToName |-> c.shortToName, globalFlags |-> c.globalFlags,
     positional |-> c.positional, nonPositional |-> c.nonPositional,
     overriddenGlobalFlags |-> c.overriddenGlobalFlags,
     shadowedShortFlags |-> c.shadowedShortFlags,
     shadowedNameFlags |-> c.shadowedNameFlags]

\* C33: a Register call that returns an error leaves the Command's flag
\* map, short map, global-flag list, order lists and shadow side tables as
\* they were before the call.
C33_RefusedRegisterLeavesCommand ==
    \A k \in 1..Len(calls) :
        calls[k].err # NoErr => Tables(calls[k].after) = Tables(calls[k].before)

----------------------------------------------------------------------------
\* C34: a Parse call made after earlier Parse calls on the same Command
\* tree, without ResetParseState in between, returns the error and leaves
\* the bound values that the same command line gives on the tree as it was
\* built.
C34_RepeatableParse ==
    (pc = "done" /\ earlier # <<>>) => AsOnFreshTree

----------------------------------------------------------------------------
\* The loop iterations that recorded their `-` token in the unknown list.
Ignored == {j \in 1..Len(trace) : trace[j].kind = "ignored"}

\* C35: under ignoreUnknown, a `-` token recorded in the unknown list has
\* stored to no write-target and marked no flag configured: a token is
\* applied as a flag or collected as unknown, never both.
C35_UnknownTokenHasNoEffect ==
    \A j \in Ignored :
        /\ trace[j].wr = <<>> /\ trace[j].mk = <<>>
        /\ PostVals(j) = trace[j].pre.vals

----------------------------------------------------------------------------
\* The loop iterations that parsed the bare name of a variadic
\* StringSlice flag (the list kind whose loop probes `-` tokens) under
\* variadicUnknownFlags.
VariadicByName ==
    {j \in 1..Len(trace) :
        /\ cfg.variadicUnknownFlags
        /\ trace[j].kind = "flag" /\ trace[j].err = NoErr
        /\ IsLongEq(trace[j].tok) = FALSE /\ HasPrefix(trace[j].tok, DashDash)
        /\ LET name == SubSeq(trace[j].tok, 3, Len(trace[j].tok))
           IN  /\ name \in DOMAIN trace[j].pre.c.flags
               /\ trace[j].pre.c.flags[name].kind = "StringSlice"
               /\ trace[j].pre.c.flags[name].Variadic}

\* The tokens that iteration j consumed behind its own.
ConsumedBy(j) ==
    [k \in 1..(trace[j].consumed - 1) |-> args[trace[j].at + k]]

\* The configured set of the running Command after iteration j.
ConfiguredAfter(j) ==
    IF j < Len(trace) /\ trace[j + 1].cmd = trace[j].cmd
    THEN trace[j + 1].pre.c.configured
    ELSE cmds[trace[j].cmd].configured

\* C36: under variadicUnknownFlags a variadic list given by name takes the
\* tokens it consumes and changes nothing else: the `-` token that ends it
\* is left to the main scan, which applies it once; no write-target other
\* than the list's holds a new value, the list holds the consumed tokens and
\* no more, and no flag other than the list is marked configured.
C36_ProbeHasNoEffect ==
    \A j \in VariadicByName :
        LET name == SubSeq(trace[j].tok, 3, Len(trace[j].tok))
            f    == trace[j].pre.c.flags[name]
            old  == trace[j].pre.vals
        IN  /\ PostVals(j) = [old EXCEPT ![f.Value] =
                                 IF trace[j].consumed = 1 THEN @
                                 ELSE IF f.hasDefault /\ @ = f.Default THEN ConsumedBy(j)
                                 ELSE @ \o ConsumedBy(j)]
            /\ ConfiguredAfter(j) = trace[j].pre.c.configured \cup {name}

----------------------------------------------------------------------------
\* The loop iterations in which the main scan, under variadicUnknownFlags,
\* gave an unrecognized `-` token to a positional flag.
Absorbed ==
    {j \in 1..Len(trace) : trace[j].kind = "unknownVariadic" /\ trace[j].wr # <<>>}

\* The variadic list that is to absorb the token of iteration j: the open
\* one, or else the first unassigned variadic positional.
Absorber(j) ==
    IF trace[j].pre.c.lastVariadicFlag # <<>> THEN trace[j].pre.c.lastVariadicFlag
    ELSE findNextUnassignedVariadicPositional(trace[j].pre.c)

\* C37: under variadicUnknownFlags an unrecognized `-` token that the main
\* scan absorbs goes to a variadic list flag, the open one or else the
\* first unassigned variadic positional: the token is appended to that
\* list and no other write-target is stored to.
C37_UnknownAbsorbedByVariadic ==
    \A j \in Absorbed :
        /\ Absorber(j) \in DOMAIN trace[j].pre.c.flags
        /\ LET f == trace[j].pre.c.flags[Absorber(j)]
           IN  /\ isVariadicFlag(f)
               /\ SeqToSet(trace[j].wr) = {f.Value}
               /\ Len(PostVals(j)[f.Value]) > 0
               /\ PostVals(j)[f.Value][Len(PostVals(j)[f.Value])] = trace[j].tok

----------------------------------------------------------------------------
\* Every Register call made so far returned no error.
AllRegistered == \A k \in 1..Len(calls) : calls[k].err = NoErr

\* In Command c each short character resolves to a flag of c whose own
\* Short is that character.
ShortsResolve(c) ==
    \A s \in DOMAIN c.shortToName :
        /\ c.shortToName[s] \in DOMAIN c.flags
        /\ c.flags[c.shortToName[s]].Short = s

\* The flag that call k registered on the subcommand is still the flag of
\* its name there, and its short still resolves to it.
KeepsOwn(k) ==
    LET f == calls[k].f
        c == cmds[Sub]
    IN  /\ f.Name \in DOMAIN c.flags /\ c.flags[f.Name].Value = calls[k].ptr
        /\ f.Short # <<>> =>
              /\ f.Short \in DOMAIN c.shortToName
              /\ c.shortToName[f.Short] = f.Name

\* C38: after successful Register and RegisterCmd calls and after a parse,
\* in every Command each short character resolves to a flag whose own Short
\* is that character, and a flag the subcommand registered itself keeps its
\* name and its short whatever global flags the parent propagates, before
\* or after the subcommand was attached.
C38_ShortsConsistent ==
    AllRegistered =>
        /\ \A n \in DOMAIN cmds : ShortsResolve(cmds[n])
        /\ \A k \in 1..Len(calls) : calls[k].cmd = Sub => KeepsOwn(k)

----------------------------------------------------------------------------
\* Strict mode: neither permissive option was given.
StrictMode == ~cfg.ignoreUnknown /\ ~cfg.variadicUnknownFlags

\* Iteration j accounts for its token: the first `--`, a dispatched
\* subcommand name, a flag token that marked a flag configured, or a
\* positional stored to a flag's write-target.
Accounted(j) ==
    \/ trace[j].kind \in {"dashdash", "subcommand"}
    \/ trace[j].kind = "flag" /\ trace[j].mk # <<>>
    \/ trace[j].kind \in {"positional", "positionalOnly", "negative"} /\ trace[j].wr # <<>>

\* C39: in strict mode a parse that succeeds has accounted for every token:
\* each token is taken by a loop iteration, as its own token or as a value
\* it consumes, and each iteration recognized a flag, bound a positional,
\* saw the first `--` or dispatched a subcommand.
C39_EveryTokenAccounted ==
    (pc = "done" /\ result = NoErr /\ StrictMode) =>
        /\ \A n \in 1..Len(args) : Reaching(trace, n) # {}
        /\ \A j \in 1..Len(trace) : Accounted(j)

----------------------------------------------------------------------------
\* The tokens the running loop has not taken yet.
Remaining == Len(rest) - i + 1

\* A step from one loop iteration to the next: within a Command the token
\* index moves forward over the same list, and a subcommand's loop starts on
\* a strictly shorter list; either way fewer tokens remain.
ScanAdvances ==
    (pc = "scan" /\ pc' = "scan") =>
        /\ Remaining' < Remaining
        /\ \/ cur' = cur /\ rest' = rest /\ i' >= i + 1
           \/ cur' # cur /\ i' = 1 /\ Len(rest') < Len(rest)

\* C40: Parse terminates: every step of the token scan advances the token
\* index by at least one or recurses into a subcommand on a strictly
\* shorter argument list, and the call returns.
C40_ParseTerminates == [][ScanAdvances]_vars /\ <>(pc = "done")

\* A parse returned in which a subcommand was dispatched and one iteration
\* consumed more than its own token.
C40_Witness ==
    /\ pc = "done"
    /\ \E j \in 1..Len(trace) : trace[j].kind = "subcommand"
    /\ \E j \in 1..Len(trace) : trace[j].consumed >= 2

====
